---- MODULE Spec2Model ----
(***************************************************************************)
(* Layered file protocols: the tape-image (TIF) and rp66 visible-envelope  *)
(* framing decoders over a leaf byte stream.                               *)
(*                                                                         *)
(* A behaviour picks one file of Files, opens the decoder named by the     *)
(* file over the leaf, and then performs any sequence of lfp_readinto and  *)
(* lfp_seek calls.  Every operator is a transliteration of the C++ method  *)
(* of the same name; exceptions are modelled as a status carried in the    *)
(* field exc of the result ("" = nothing thrown).                          *)
(*                                                                         *)
(* Offsets are absolute byte offsets, sequences are 1-based, so the byte   *)
(* at physical offset p of the leaf is data[p + 1].  Asserts are compiled  *)
(* out (NDEBUG).  All offsets in the modelled files stay far below 2^31,   *)
(* so the uint32 fields never wrap in the arithmetic below.                *)
(***************************************************************************)
EXTENDS Integers, Sequences, FiniteSets, TLC

(***************************************************************************)
(* Bounds of the exploration.                                              *)
(***************************************************************************)
MaxLen == 6

MaxSeek == 7

(* reads explored on a leaf that the caller got back from a decoder *)
MaxInnerReads == 1

(* the longest of those reads *)
MaxInnerLen == 2

(* the headers one seek may append to the index before the model stops     *)
(* following its loop; more than the bytes of the files that make a loop   *)
(* go on for ever, and more than the records of any other file             *)
MaxChase == 6

(***************************************************************************)
(* Status codes (lfp_status).                                              *)
(***************************************************************************)
LFP_OK == "OK"

LFP_OKINCOMPLETE == "OKINCOMPLETE"

LFP_EOF == "EOF"

LFP_UNEXPECTED_EOF == "UNEXPECTED_EOF"

LFP_IOERROR == "IOERROR"

LFP_PROTOCOL_FATAL_ERROR == "PROTOCOL_FATAL_ERROR"

LFP_PROTOCOL_TRYRECOVERY == "PROTOCOL_TRYRECOVERY"

LFP_PROTOCOL_FAILEDRECOVERY == "PROTOCOL_FAILEDRECOVERY"

LFP_UNHANDLED_EXCEPTION == "UNHANDLED_EXCEPTION"

LFP_INVALID_ARGS == "INVALID_ARGS"

LFP_LEAF_PROTOCOL == "LEAF_PROTOCOL"

NoExc == ""

(* what a call leaves instead of a status when abort() ends the program *)
Abort == "abort"

(* what a call leaves instead of a status when it has not come back after  *)
(* MaxChase headers                                                        *)
Endless == "endless"

Min(a, b) == IF a < b THEN a ELSE b

(***************************************************************************)
(* std::numeric_limits<std::uint32_t>::max().  2^32 - 1 lies beyond the    *)
(* integers of the model checker, which end at 2^31 - 1.  The decoders     *)
(* compare a seek offset, moved by header sizes and by the base address,   *)
(* with offsets of the leaf in 64-bit arithmetic, so the model keeps the   *)
(* one property of the limit that these comparisons use: it lies above     *)
(* every offset of the files of the exploration.                           *)
(***************************************************************************)
UInt32Max == 1000

(***************************************************************************)
(* On-disk encodings.  The tape-image header is three little-endian        *)
(* uint32; the rp66 header is a big-endian uint16 followed by two bytes.   *)
(***************************************************************************)
TifHeaderSize == 12

Rp66HeaderSize == 4

LE32(v) ==
    << v % 256, (v \div 256) % 256, (v \div 65536) % 256,
       (v \div 16777216) % 256 >>

ReadLE32(b, i) ==
    b[i] + 256 * b[i + 1] + 65536 * b[i + 2] + 16777216 * b[i + 3]

BE16(v) == << (v \div 256) % 256, v % 256 >>

ReadBE16(b, i) == 256 * b[i] + b[i + 1]

TifHdr(type, prev, next) == LE32(type) \o LE32(prev) \o LE32(next)

VRHdr(length, format, major) == BE16(length) \o << format, major >>

(* payload bytes i..j of the logical stream: byte k carries 100 + k *)
Pay(i, j) == [k \in 1..(j - i + 1) |-> 100 + i + k - 1]

Prefix(n) == [k \in 1..n |-> 90 + k]

(***************************************************************************)
(* The files of the exploration.  proto names the decoder opened over the  *)
(* leaf ("none": the leaf is used alone); kind names the leaf ("cfile":    *)
(* src/cfile.cpp over a regular file, "memfile": the memory file,          *)
(* "blockedpipe": the leaf of test/utils.hpp that stops yielding bytes at  *)
(* blocked_from); open_at is the leaf's tell() when the decoder is opened; *)
(* czero is the cfile's own zero; payload is the logical payload of a      *)
(* well-formed file (records up to the first file-type header).            *)
(***************************************************************************)
MkFile(proto, kind, data, open_at, czero, blocked_from, wellformed, payload) ==
    [ proto |-> proto, kind |-> kind, data |-> data, open_at |-> open_at,
      czero |-> czero, blocked_from |-> blocked_from,
      wellformed |-> wellformed, payload |-> payload ]

(* three records, the middle one empty, then the file marker *)
TifPlain ==
    MkFile("tif", "cfile",
           TifHdr(0, 0, 14) \o Pay(0, 1) \o TifHdr(0, 0, 26)
             \o TifHdr(0, 14, 41) \o Pay(2, 4) \o TifHdr(1, 26, 53),
           0, 0, 0, TRUE, Pay(0, 4))

(* the decoder is opened 3 bytes into the leaf *)
TifOffset ==
    MkFile("tif", "cfile",
           Prefix(3) \o TifHdr(0, 0, 17) \o Pay(0, 1)
             \o TifHdr(0, 3, 32) \o Pay(2, 4) \o TifHdr(1, 17, 44),
           3, 0, 0, TRUE, Pay(0, 4))

(* records located after a file marker *)
TifFileMid ==
    MkFile("tif", "cfile",
           TifHdr(0, 0, 14) \o Pay(0, 1) \o TifHdr(1, 0, 26)
             \o TifHdr(0, 14, 40) \o Pay(2, 3) \o TifHdr(1, 26, 52),
           0, 0, 0, TRUE, Pay(0, 1))

(* file marker as the very first header, 2 bytes into the leaf *)
TifFileFirst ==
    MkFile("tif", "cfile",
           Prefix(2) \o TifHdr(1, 0, 14) \o TifHdr(0, 2, 28) \o Pay(0, 1),
           2, 0, 0, TRUE, << >>)

TifTruncData ==
    MkFile("tif", "cfile", TifHdr(0, 0, 16) \o Pay(0, 1),
           0, 0, 0, FALSE, << >>)

TifTruncHeader ==
    MkFile("tif", "cfile",
           TifHdr(0, 0, 14) \o Pay(0, 1) \o << 0, 0, 0, 0, 0, 0, 0, 0 >>,
           0, 0, 0, FALSE, << >>)

TifNoMark ==
    MkFile("tif", "cfile", TifHdr(0, 0, 14) \o Pay(0, 1),
           0, 0, 0, FALSE, << >>)

(* one header with an unknown type *)
TifBadType ==
    MkFile("tif", "cfile",
           TifHdr(0, 0, 14) \o Pay(0, 1) \o TifHdr(2, 0, 28) \o Pay(2, 3)
             \o TifHdr(1, 14, 40),
           0, 0, 0, FALSE, << >>)

(* two headers with an unknown type *)
TifBadTypeTwice ==
    MkFile("tif", "cfile",
           TifHdr(0, 0, 14) \o Pay(0, 1) \o TifHdr(2, 0, 28) \o Pay(2, 3)
             \o TifHdr(2, 14, 42) \o Pay(4, 5) \o TifHdr(1, 28, 54),
           0, 0, 0, FALSE, << >>)

(* third header with a wrong back pointer *)
TifBadPrev ==
    MkFile("tif", "cfile",
           TifHdr(0, 0, 14) \o Pay(0, 1) \o TifHdr(0, 0, 28) \o Pay(2, 3)
             \o TifHdr(0, 7, 42) \o Pay(4, 5) \o TifHdr(1, 28, 54),
           0, 0, 0, FALSE, << >>)

(* second header with next <= prev *)
TifNextLePrev ==
    MkFile("tif", "cfile",
           TifHdr(0, 0, 14) \o Pay(0, 1) \o TifHdr(0, 30, 28) \o Pay(2, 3)
             \o TifHdr(1, 14, 40),
           0, 0, 0, FALSE, << >>)

(* second header with an unknown type and next <= prev *)
TifBadTypeNextLePrev ==
    MkFile("tif", "cfile",
           TifHdr(0, 0, 14) \o Pay(0, 1) \o TifHdr(2, 30, 28) \o Pay(2, 3)
             \o TifHdr(1, 14, 40),
           0, 0, 0, FALSE, << >>)

(* an unknown type in the second header, a wrong back pointer in the third *)
TifBadTypeBadPrev ==
    MkFile("tif", "cfile",
           TifHdr(0, 0, 14) \o Pay(0, 1) \o TifHdr(2, 0, 28) \o Pay(2, 3)
             \o TifHdr(0, 7, 42) \o Pay(4, 5) \o TifHdr(1, 28, 54),
           0, 0, 0, FALSE, << >>)

(* an unknown type in the second header; the third has a wrong back        *)
(* pointer that is not below its next                                      *)
TifBadTypeWrapped ==
    MkFile("tif", "cfile",
           TifHdr(0, 0, 14) \o Pay(0, 1) \o TifHdr(2, 0, 28) \o Pay(2, 3)
             \o TifHdr(0, 50, 42) \o Pay(4, 5) \o TifHdr(1, 28, 54),
           0, 0, 0, FALSE, << >>)

(* an unknown type in the first header, a wrong back pointer in the second *)
TifBadFirstBadPrev ==
    MkFile("tif", "cfile",
           TifHdr(2, 0, 14) \o Pay(0, 1) \o TifHdr(0, 5, 28) \o Pay(2, 3)
             \o TifHdr(1, 14, 40),
           0, 0, 0, FALSE, << >>)

(* two headers with an unknown type, the second with next <= prev *)
TifBadTypeTwiceWrapped ==
    MkFile("tif", "cfile",
           TifHdr(0, 0, 14) \o Pay(0, 1) \o TifHdr(2, 0, 28) \o Pay(2, 3)
             \o TifHdr(2, 50, 42) \o Pay(4, 5) \o TifHdr(1, 28, 54),
           0, 0, 0, FALSE, << >>)

TifBlocked ==
    MkFile("tif", "blockedpipe", TifHdr(0, 0, 18) \o Pay(0, 5),
           0, 0, 15, FALSE, << >>)

TifBlockedHeader ==
    MkFile("tif", "blockedpipe",
           TifHdr(0, 0, 14) \o Pay(0, 1) \o TifHdr(0, 0, 28) \o Pay(2, 3),
           0, 0, 20, FALSE, << >>)

(* unknown type in the first header, and a leaf that blocks in the data *)
TifBadTypeBlocked ==
    MkFile("tif", "blockedpipe", TifHdr(2, 0, 18) \o Pay(0, 5),
           0, 0, 15, FALSE, << >>)

Rp66Plain ==
    MkFile("rp66", "cfile",
           VRHdr(8, 255, 1) \o Pay(0, 3) \o VRHdr(6, 255, 1) \o Pay(4, 5),
           0, 0, 0, TRUE, Pay(0, 5))

(* a second record long enough for the index to contain offsets in it *)
Rp66Long ==
    MkFile("rp66", "cfile",
           VRHdr(6, 255, 1) \o Pay(0, 1) \o VRHdr(10, 255, 1) \o Pay(2, 7),
           0, 0, 0, TRUE, Pay(0, 7))

(* an empty visible record in the middle, over a cfile with zero = 2 *)
Rp66Empty ==
    MkFile("rp66", "cfile",
           Prefix(2) \o VRHdr(6, 255, 1) \o Pay(0, 1) \o VRHdr(4, 255, 1)
             \o VRHdr(7, 255, 1) \o Pay(2, 4),
           0, 2, 0, TRUE, Pay(0, 4))

Rp66Offset ==
    MkFile("rp66", "cfile",
           Prefix(3) \o VRHdr(8, 255, 1) \o Pay(0, 3)
             \o VRHdr(6, 255, 1) \o Pay(4, 5),
           3, 0, 0, TRUE, Pay(0, 5))

Rp66TruncData ==
    MkFile("rp66", "cfile", VRHdr(10, 255, 1) \o Pay(0, 2),
           0, 0, 0, FALSE, << >>)

Rp66TruncHeader ==
    MkFile("rp66", "cfile",
           VRHdr(6, 255, 1) \o Pay(0, 1) \o << 0, 6 >>,
           0, 0, 0, FALSE, << >>)

(* Rp66TruncHeader, opened 2 bytes into the leaf *)
Rp66OffsetTruncHeader ==
    MkFile("rp66", "cfile",
           Prefix(2) \o VRHdr(6, 255, 1) \o Pay(0, 1) \o << 0, 6 >>,
           2, 0, 0, FALSE, << >>)

Rp66BadVersion ==
    MkFile("rp66", "cfile",
           VRHdr(6, 255, 1) \o Pay(0, 1) \o VRHdr(6, 254, 1) \o Pay(2, 3),
           0, 0, 0, FALSE, << >>)

Rp66Blocked ==
    MkFile("rp66", "blockedpipe", VRHdr(10, 255, 1) \o Pay(0, 5),
           0, 0, 7, FALSE, << >>)

(* a visible record whose length field is 0: a header and nothing else *)
Rp66ZeroLength ==
    MkFile("rp66", "cfile", VRHdr(0, 255, 1), 0, 0, 0, FALSE, << >>)

(* a visible record whose length field is less than the header's size *)
Rp66ShortLength ==
    MkFile("rp66", "cfile", VRHdr(2, 255, 1) \o Pay(0, 3),
           0, 0, 0, FALSE, << >>)

(* the second header's next points back in front of the header itself *)
TifNextBack ==
    MkFile("tif", "cfile",
           TifHdr(0, 0, 14) \o Pay(0, 1) \o TifHdr(0, 0, 10) \o Pay(2, 3),
           0, 0, 0, FALSE, << >>)

(* the second header's next is the header's own offset *)
TifNextSelf ==
    MkFile("tif", "cfile",
           TifHdr(0, 0, 14) \o Pay(0, 1) \o TifHdr(0, 0, 14) \o Pay(2, 3),
           0, 0, 0, FALSE, << >>)

(* the second header's next points into the payload of the first record,   *)
(* whose 12 bytes are a header again                                       *)
TifNextInside ==
    MkFile("tif", "cfile",
           TifHdr(0, 0, 24) \o TifHdr(0, 24, 44) \o TifHdr(0, 0, 12),
           0, 0, 0, FALSE, << >>)

(***************************************************************************)
(* Leaves used as streams of their own (proto "none"): a memory file of 4  *)
(* bytes, an empty memory file, and a cfile opened 1 byte into its file.   *)
(***************************************************************************)
MemBare == MkFile("none", "memfile", Pay(0, 3), 0, 0, 0, TRUE, Pay(0, 3))

MemEmpty == MkFile("none", "memfile", << >>, 0, 0, 0, TRUE, << >>)

CfileBare ==
    MkFile("none", "cfile", Prefix(1) \o Pay(0, 3), 0, 1, 0, TRUE, Pay(0, 3))

(* leaves that do not yield a first header: the file ends inside it, the   *)
(* pipe blocks inside it                                                   *)
TifNoHeader ==
    MkFile("tif", "cfile", << 0, 0, 0, 0, 0 >>, 0, 0, 0, FALSE, << >>)

TifBlockedOpen ==
    MkFile("tif", "blockedpipe", TifHdr(0, 0, 14) \o Pay(0, 1),
           0, 0, 6, FALSE, << >>)

(* the files on which close, peel and peek are explored *)
LifeFiles ==
    { MemBare, CfileBare, TifNoMark, TifNoHeader, TifBlockedOpen,
      Rp66Empty, Rp66Blocked }

Files ==
    << MemBare, MemEmpty, CfileBare, TifNoHeader, TifBlockedOpen,
       TifPlain, TifOffset, TifFileMid, TifFileFirst, TifTruncData,
       TifTruncHeader, TifNoMark, TifBadType, TifBadTypeTwice, TifBadPrev,
       TifNextLePrev, TifBadTypeNextLePrev, TifBadTypeBadPrev,
       TifBadTypeWrapped, TifBadFirstBadPrev, TifBadTypeTwiceWrapped,
       TifBlocked, TifBlockedHeader,
       TifBadTypeBlocked,
       Rp66Plain, Rp66Long, Rp66Empty, Rp66Offset, Rp66TruncData, Rp66TruncHeader,
       Rp66OffsetTruncHeader,
       Rp66BadVersion, Rp66Blocked,
       Rp66ZeroLength, Rp66ShortLength, TifNextBack, TifNextSelf,
       TifNextInside >>

(***************************************************************************)
(* The leaf.  A handle h carries the leaf position ipos (physical) and the *)
(* leaf's end-of-file indicator ieof next to the decoder's own fields.     *)
(* A read answers [h, n, bytes, st]: the handle after it, the count, the   *)
(* bytes and the status.                                                   *)
(***************************************************************************)

(* the bytes of a regular file from the position on *)
Avail(f, h) == IF h.ipos >= Len(f.data) THEN 0 ELSE Len(f.data) - h.ipos

(* std::fread over a regular file: it comes short only at the end.  The    *)
(* count is a size_t: a negative len asks for more than any file holds     *)
Fread(f, h, len) ==
    IF len < 0 THEN Avail(f, h) ELSE Min(len, Avail(f, h))

(* cfile::readinto once fread has returned n: OK / EOF by feof *)
CfileAnswer(f, h, len, n) ==
    [ h     |-> [h EXCEPT !.ipos = h.ipos + n,
                          !.ieof = h.ieof \/ (n # len)],
      n     |-> n,
      bytes |-> SubSeq(f.data, h.ipos + 1, h.ipos + n),
      st    |-> IF n = len THEN LFP_OK ELSE LFP_EOF ]

CfileReadinto(f, h, len) == CfileAnswer(f, h, len, Fread(f, h, len))

(* blockedpipe::readinto once the count read is known *)
BlockedAnswer(f, h, len, read) ==
    [ h     |-> [h EXCEPT !.ipos = h.ipos + read],
      n     |-> read,
      bytes |-> SubSeq(f.data, h.ipos + 1, h.ipos + read),
      st    |-> IF read = len THEN LFP_OK ELSE LFP_OKINCOMPLETE ]

BlockedReadinto(f, h, len) ==
    BlockedAnswer(f, h, len,
                  IF h.ipos + len > f.blocked_from
                  THEN f.blocked_from - h.ipos
                  ELSE len)

(* memfile::readinto once n = min(len, remaining) is known *)
MemfileAnswer(f, h, len, n) ==
    [ h     |-> [h EXCEPT !.ipos = h.ipos + n],
      n     |-> n,
      bytes |-> SubSeq(f.data, h.ipos + 1, h.ipos + n),
      st    |-> IF n < len THEN LFP_OKINCOMPLETE ELSE LFP_OK ]

MemfileReadinto(f, h, len) ==
    MemfileAnswer(f, h, len, Min(len, Len(f.data) - h.ipos))

(* memfile::eof *)
MemfileEof(f, h) == h.ipos = Len(f.data)

(* memfile::tell *)
MemfileTell(h) == h.ipos

InnerReadinto(f, h, len) ==
    IF f.kind = "cfile" THEN CfileReadinto(f, h, len)
                        ELSE BlockedReadinto(f, h, len)

(* variant: the offset is taken relative to the current position *)
InnerSeekRelative(f, h, n) ==
    IF f.kind = "cfile"
    THEN [h EXCEPT !.ipos = h.ipos + n + f.czero, !.ieof = FALSE]
    ELSE [h EXCEPT !.ipos = IF h.ipos + n > f.blocked_from
                             THEN f.blocked_from ELSE h.ipos + n]

(* cfile::seek: fseek to n + zero, which clears the end-of-file indicator; *)
(* blockedpipe::seek clips at blocked_from                                 *)
InnerSeek(f, h, n) ==
    IF f.kind = "cfile"
    THEN [h EXCEPT !.ipos = n + f.czero, !.ieof = FALSE]
    ELSE [h EXCEPT !.ipos = IF n > f.blocked_from THEN f.blocked_from ELSE n]

InnerTell(f, h) ==
    IF f.kind = "cfile" THEN h.ipos - f.czero ELSE h.ipos

(* variant: the leaf never reports its end *)
InnerEofNever(f, h) == FALSE

(* cfile::eof is feof; blockedpipe::eof is always 0 *)
InnerEof(f, h) ==
    IF f.kind = "cfile" THEN h.ieof ELSE FALSE

(***************************************************************************)
(* What read_header_from_disk leaves behind: the handle, the status thrown *)
(* (exc) and what the leaf answered (ist).                                 *)
(***************************************************************************)
Thrown(h, st, ist) == [ h |-> h, exc |-> st, ist |-> ist ]

(* index.append(head) *)
Appended(h, head, ist) ==
    [ h |-> [h EXCEPT !.index = Append(h.index, head)], exc |-> NoExc,
      ist |-> ist ]

(* what a seek leaves behind *)
Sought(h, st) == [ h |-> h, exc |-> st ]

(* variant: the position lands one byte past the offset *)
MemfileSeekPast(f, h, n) ==
    IF n >= Len(f.data)
    THEN Sought(h, LFP_INVALID_ARGS)
    ELSE Sought([h EXCEPT !.ipos = n + 1], NoExc)

(* memfile::seek *)
MemfileSeek(f, h, n) ==
    IF n >= Len(f.data)
    THEN Sought(h, LFP_INVALID_ARGS)
    ELSE Sought([h EXCEPT !.ipos = n], NoExc)

(***************************************************************************)
(* Tape image: address_map, record_index and read_head.  The index is the  *)
(* sequence h.index of headers [type, prev, next]; the read head is the    *)
(* pair (h.cur, h.rem), h.cur being the 1-based position of the iterator.  *)
(***************************************************************************)
TifRecord == 0

TifFile == 1

(* variant: the base address is left out *)
TifLogicalNoBase(zero, addr, record) ==
    addr - (TifHeaderSize * (1 + record))

TifLogical(zero, addr, record) ==
    addr - (TifHeaderSize * (1 + record)) - zero

TifPhysical(zero, addr, record) ==
    addr + (TifHeaderSize * (1 + record)) + zero

TifContains(h, n) ==
    n < TifLogical(h.zero, h.index[Len(h.index)].next, Len(h.index) - 1)

(* the in_hint lambda of record_index::find *)
TifInHint(h, n, hint) ==
    IF hint - 1 = 0
    THEN n < TifLogical(h.zero, h.index[hint].next, hint - 1)
    ELSE /\ n >= TifLogical(h.zero, h.index[hint - 1].next, hint - 2)
         /\ n < TifLogical(h.zero, h.index[hint].next, hint - 1)

(* std::upper_bound over [first, first + len) with the comparison          *)
(* n < logical(h.next, 0)                                                  *)
RECURSIVE TifUpperBound(_, _, _, _)
TifUpperBound(h, n, first, len) ==
    IF len <= 0
    THEN first
    ELSE IF n < TifLogical(h.zero, h.index[first + (len \div 2)].next, 0)
         THEN TifUpperBound(h, n, first, len \div 2)
         ELSE TifUpperBound(h, n, first + (len \div 2) + 1,
                            len - (len \div 2) - 1)

(* std::find_if with the next_larger lambda, which counts pos up by one    *)
(* per element tested; Len(h.index) + 1 is end()                           *)
RECURSIVE TifFindIf(_, _, _, _)
TifFindIf(h, n, i, pos) ==
    IF i > Len(h.index)
    THEN i
    ELSE IF n < TifLogical(h.zero, h.index[i].next, pos)
         THEN i
         ELSE TifFindIf(h, n, i + 1, pos + 1)

(* phase 2 of record_index::find, from the lower bound of phase 1; 0       *)
(* stands for the logic_error it throws                                    *)
TifFindFrom(h, n, lower) ==
    IF TifFindIf(h, n, lower, lower - 1) > Len(h.index)
    THEN 0
    ELSE TifFindIf(h, n, lower, lower - 1)

(* record_index::find *)
TifFind(h, n, hint) ==
    IF TifInHint(h, n, hint)
    THEN hint
    ELSE TifFindFrom(h, n, TifUpperBound(h, n, 1, Len(h.index)))

(* read_head::tell *)
TifHeadTell(h) == h.index[h.cur].next - h.rem

(* read_head::move(n); FALSE when it throws std::invalid_argument *)
HeadCanMove(h, n) == ~ (h.rem - n < 0)

HeadMove(h, n) == [h EXCEPT !.rem = h.rem - n]

(* read_head::move(itr).  std::prev(itr) of the first index entry reads    *)
(* the word in front of the index storage: junk stands for that word       *)
TifMoveTo(h, itr, junk) ==
    [h EXCEPT !.cur = itr,
              !.rem = h.index[itr].next
                        - ((IF itr = 1 THEN junk ELSE h.index[itr - 1].next)
                           + TifHeaderSize)]

(* current.move(real_offset - current.tell()), through lfp_seek *)
TifMoveToOffset(h, real_offset) ==
    IF HeadCanMove(h, real_offset - TifHeadTell(h))
    THEN Sought(HeadMove(h, real_offset - TifHeadTell(h)), NoExc)
    ELSE Sought(h, LFP_UNHANDLED_EXCEPTION)

(* variant: a file-type header does not end the file *)
TifEofNever(h) == FALSE

(* tapeimage::eof *)
TifEof(h) == h.index[h.cur].type = TifFile

(* tapeimage::tell *)
TifTell(h) == TifLogical(h.zero, TifHeadTell(h), h.cur - 1)

(***************************************************************************)
(* tapeimage::read_header_from_disk: the read of the leaf, the check of    *)
(* the type, the checks of next and prev, the append.                      *)
(***************************************************************************)
TifParseHeader(b) ==
    [ type |-> ReadLE32(b, 1), prev |-> ReadLE32(b, 5),
      next |-> ReadLE32(b, 9) ]

(* variant: a prev that disagrees is stored as it is on disk *)
TifCheckPrevKeeping(h, head, ist) ==
    IF Len(h.index) >= 2
    THEN IF head.prev # h.index[Len(h.index) - 1].next
         THEN IF h.recovery # LFP_OK
              THEN Thrown(h, LFP_PROTOCOL_FAILEDRECOVERY, ist)
              ELSE Appended(
                     [h EXCEPT !.recovery = LFP_PROTOCOL_TRYRECOVERY],
                     head, ist)
         ELSE Appended(h, head, ist)
    ELSE IF h.recovery # LFP_OK /\ Len(h.index) > 0 /\ head.prev # h.zero
    THEN Thrown(h, LFP_PROTOCOL_FAILEDRECOVERY, ist)
    ELSE Appended(h, head, ist)

(* from "if (this->index.size() >= 2)" on: the check of head.prev against  *)
(* the next of the record two places back, and the append                  *)
TifCheckPrev(h, head, ist) ==
    IF Len(h.index) >= 2
    THEN IF head.prev # h.index[Len(h.index) - 1].next
         THEN IF h.recovery # LFP_OK
              THEN Thrown(h, LFP_PROTOCOL_FAILEDRECOVERY, ist)
              ELSE Appended(
                     [h EXCEPT !.recovery = LFP_PROTOCOL_TRYRECOVERY],
                     [head EXCEPT !.prev = h.index[Len(h.index) - 1].next],
                     ist)
         ELSE Appended(h, head, ist)
    ELSE IF h.recovery # LFP_OK /\ Len(h.index) > 0 /\ head.prev # h.zero
    THEN Thrown(h, LFP_PROTOCOL_FAILEDRECOVERY, ist)
    ELSE Appended(h, head, ist)

(* variant: the order of next and prev is not looked at *)
TifCheckPointersUnordered(h, head, ist) == TifCheckPrev(h, head, ist)

(* from "if (head.next <= head.prev)" on; h and head are the handle and    *)
(* the header as the type check left them                                  *)
TifCheckPointers(h, head, ist) ==
    IF head.next <= head.prev
    THEN Thrown(h, LFP_PROTOCOL_FATAL_ERROR, ist)
    ELSE TifCheckPrev(h, head, ist)

(* variant: an unknown type is coerced in recovery as well *)
TifCheckTypeCoercing(h, head, ist) ==
    IF head.type = TifRecord \/ head.type = TifFile
    THEN TifCheckPointers(h, head, ist)
    ELSE TifCheckPointers([h EXCEPT !.recovery = LFP_PROTOCOL_TRYRECOVERY],
                          [head EXCEPT !.type = TifRecord], ist)

(* the check of head.type *)
TifCheckType(h, head, ist) ==
    IF head.type = TifRecord \/ head.type = TifFile
    THEN TifCheckPointers(h, head, ist)
    ELSE IF h.recovery # LFP_OK
    THEN Thrown(h, LFP_PROTOCOL_FAILEDRECOVERY, ist)
    ELSE TifCheckPointers([h EXCEPT !.recovery = LFP_PROTOCOL_TRYRECOVERY],
                          [head EXCEPT !.type = TifRecord], ist)

(* the switch on what the leaf answered; r is that answer *)
TifHeaderRead(r) ==
    IF r.st = LFP_OKINCOMPLETE
    THEN Thrown(r.h, LFP_PROTOCOL_FAILEDRECOVERY, r.st)
    ELSE IF r.st = LFP_EOF
    THEN Thrown(r.h, LFP_UNEXPECTED_EOF, r.st)
    ELSE TifCheckType(r.h, TifParseHeader(r.bytes), r.st)

TifReadHeaderFromDisk(f, h) ==
    TifHeaderRead(InnerReadinto(f, h, TifHeaderSize))

(***************************************************************************)
(* What the leaf answered during one call: the status of the last header   *)
(* read and of the last payload read ("" when there was none), and whether *)
(* a payload read met the end of the leaf with bytes of the record owed;   *)
(* at lists the offsets of the leaf where the call has read a whole        *)
(* header, in the order of the reads.                                      *)
(***************************************************************************)
NoObs == [ header |-> "", data |-> "", owed |-> FALSE, at |-> << >> ]

(* the leaf has answered a header read; rh is what read_header_from_disk   *)
(* has left, with the leaf just behind the bytes it gave                   *)
ObsHeader(f, obs, rh) ==
    [obs EXCEPT !.header = rh.ist,
                !.at = IF rh.ist = LFP_OK
                       THEN Append(obs.at,
                                   InnerTell(f, rh.h)
                                     - (IF f.proto = "tif"
                                        THEN TifHeaderSize
                                        ELSE Rp66HeaderSize))
                       ELSE obs.at]

ObsData(obs, st, rem) ==
    [obs EXCEPT !.data = st,
                !.owed = obs.owed \/ (st = LFP_EOF /\ rem > 0)]

(***************************************************************************)
(* tapeimage::readinto(void*, int64), the private loop.  out is the run of *)
(* bytes copied to dst so far; the loop leaves [h, out, exc, obs].         *)
(***************************************************************************)
Left(h, out, exc, obs) == [ h |-> h, out |-> out, exc |-> exc, obs |-> obs ]

RECURSIVE TifReadLoop(_, _, _, _, _)

(* variant: what was copied before the header is dropped *)
TifLoopAfterHeaderDropping(f, rh, len, out, obs) ==
    IF rh.exc # NoExc
    THEN Left(rh.h, out, rh.exc, ObsHeader(f, obs, rh))
    ELSE TifReadLoop(f, TifMoveTo(rh.h, Len(rh.h.index), 0), len, << >>,
                     ObsHeader(f, obs, rh))

(* after read_header_from_disk (rh): current.move(index.last()), continue *)
TifLoopAfterHeader(f, rh, len, out, obs) ==
    IF rh.exc # NoExc
    THEN Left(rh.h, out, rh.exc, ObsHeader(f, obs, rh))
    ELSE TifReadLoop(f, TifMoveTo(rh.h, Len(rh.h.index), 0), len, out,
                     ObsHeader(f, obs, rh))

(* next_record(), fp->seek(next.tell()), current.move(next) *)
TifNextRecord(f, h) ==
    [InnerSeek(f, h, h.index[h.cur].next + TifHeaderSize)
       EXCEPT !.cur = h.cur + 1,
              !.rem = h.index[h.cur + 1].next
                        - (h.index[h.cur].next + TifHeaderSize)]

(* after fp->readinto (r) and current.move(n) (h is the handle after it) *)
TifLoopAfterData(f, r, h, len, out, obs) ==
    IF r.st = LFP_OKINCOMPLETE
    THEN Left(h, out, NoExc, obs)
    ELSE IF r.st = LFP_EOF /\ h.rem # 0
    THEN Left(h, out, LFP_UNEXPECTED_EOF, obs)
    ELSE IF r.st = LFP_EOF /\ h.rem = 0
    THEN Left(h, out, NoExc, obs)
    ELSE IF r.n = len
    THEN Left(h, out, NoExc, obs)
    ELSE TifReadLoop(f, h, len - r.n, out, obs)

(* current.move(n) throws std::invalid_argument when n is more than the    *)
(* read head has left                                                      *)
TifLoopData(f, r, len, out, obs) ==
    IF HeadCanMove(r.h, r.n)
    THEN TifLoopAfterData(f, r, HeadMove(r.h, r.n), len, out \o r.bytes,
                          ObsData(obs, r.st, r.h.rem - r.n))
    ELSE Left(r.h, out \o r.bytes, LFP_UNHANDLED_EXCEPTION,
              ObsData(obs, r.st, r.h.rem - r.n))

TifReadLoop(f, h, len, out, obs) ==
    IF TifEof(h)
    THEN Left(h, out, NoExc, obs)
    ELSE IF h.rem = 0
    THEN IF h.cur = Len(h.index)
         THEN TifLoopAfterHeader(f, TifReadHeaderFromDisk(f, h), len, out,
                                 obs)
         ELSE TifReadLoop(f, TifNextRecord(f, h), len, out, obs)
    ELSE TifLoopData(f, InnerReadinto(f, h, Min(len, h.rem)), len, out, obs)

(* variant: eof and incomplete change places *)
TifReadStatusSwapped(h, n, len) ==
    IF h.recovery # LFP_OK THEN h.recovery
    ELSE IF n = len THEN LFP_OK
    ELSE IF TifEof(h) THEN LFP_OKINCOMPLETE
    ELSE LFP_EOF

(* the status tapeimage::readinto (public) returns once the loop is back   *)
TifReadStatus(h, n, len) ==
    IF h.recovery # LFP_OK THEN h.recovery
    ELSE IF n = len THEN LFP_OK
    ELSE IF TifEof(h) THEN LFP_EOF
    ELSE LFP_OKINCOMPLETE

(* the value of *bytes_read when tapeimage::readinto is left: the private  *)
(* loop's count, or, when the loop throws, whatever the caller had put in  *)
(* the variable (unset)                                                    *)
TifBytesRead(r, unset) ==
    IF r.exc # NoExc THEN unset ELSE Len(r.out)

(* what lfp_readinto hands back once the private loop has left r *)
TifReturn(r, len, unset) ==
    [ h      |-> r.h,
      out    |-> r.out,
      threw  |-> r.exc # NoExc,
      st     |-> IF r.exc # NoExc THEN r.exc
                 ELSE TifReadStatus(r.h, Len(r.out), len),
      nread  |-> TifBytesRead(r, unset),
      obs    |-> r.obs ]

(***************************************************************************)
(* lfp_readinto on a tape image: the public readinto, with an exception    *)
(* turned into its status.  nread is the caller's bytes_read variable,     *)
(* which held unset before the call.                                       *)
(***************************************************************************)
TifReadinto(f, h, len, unset) ==
    TifReturn(TifReadLoop(f, h, len, << >>, NoObs), len, unset)

(***************************************************************************)
(* tapeimage::seek, through lfp_seek.                                      *)
(***************************************************************************)
RECURSIVE TifSeekLoop(_, _, _)

(* after read_header_from_disk (rh): current.move(index.last()), loop *)
TifSeekAfterHeader(f, rh, n) ==
    IF rh.exc # NoExc
    THEN Sought(rh.h, rh.exc)
    ELSE TifSeekLoop(f, TifMoveTo(rh.h, Len(rh.h.index), 0), n)

(* one round of the while loop; last is index.last() *)
TifSeekRound(f, h, n, last, real_offset) ==
    IF real_offset = last.next
    THEN Sought(HeadMove(InnerSeek(f, h, last.next), h.rem), NoExc)
    ELSE IF real_offset < last.next
    THEN TifMoveToOffset(InnerSeek(f, h, real_offset), real_offset)
    ELSE IF last.type = TifFile
    THEN Sought(h, NoExc)
    ELSE TifSeekAfterHeader(f,
           TifReadHeaderFromDisk(f, InnerSeek(f, h, last.next)), n)

TifSeekLoop(f, h, n) ==
    TifSeekRound(f, h, n, h.index[Len(h.index)],
                 TifPhysical(h.zero, n, Len(h.index) - 1))

(* variant: the target is taken inside its record at a border as well *)
TifSeekIndexedInside(f, h, n, junk, next) ==
    IF next = 0
    THEN Sought(h, LFP_UNHANDLED_EXCEPTION)
    ELSE TifMoveToOffset(
           TifMoveTo(InnerSeek(f, h, TifPhysical(h.zero, n, next - 1)),
                     next, junk),
           TifPhysical(h.zero, n, next - 1))

(* the target is indexed: next is what index.find returned *)
TifSeekIndexed(f, h, n, junk, next) ==
    IF next = 0
    THEN Sought(h, LFP_UNHANDLED_EXCEPTION)
    ELSE IF /\ next - 1 > 0
            /\ TifPhysical(h.zero, n, next - 1)
                 = h.index[next - 1].next + TifHeaderSize
    THEN Sought([TifMoveTo(InnerSeek(f, h, h.index[next - 1].next),
                           next - 1, junk) EXCEPT !.rem = 0], NoExc)
    ELSE TifMoveToOffset(
           TifMoveTo(InnerSeek(f, h, TifPhysical(h.zero, n, next - 1)),
                     next, junk),
           TifPhysical(h.zero, n, next - 1))

(* variant: a seek starts over with a clean recovery status *)
TifSeekClearing(f, h, n, junk) ==
    TifSeekLoop(f, TifMoveTo([h EXCEPT !.recovery = LFP_OK],
                             Len(h.index), junk), n)

TifSeek(f, h, n, junk) ==
    IF UInt32Max < n
    THEN Sought(h, LFP_INVALID_ARGS)
    ELSE IF TifContains(h, n)
    THEN TifSeekIndexed(f, h, n, junk, TifFind(h, n, h.cur))
    ELSE TifSeekLoop(f, TifMoveTo(h, Len(h.index), junk), n)

(***************************************************************************)
(* tapeimage::tapeimage, through lfp_tapeimage_open: the base address is   *)
(* the leaf's tell, and the first header is read at once.  leaf is the     *)
(* handle with only the leaf fields meaningful.  exc # "" means the        *)
(* constructor threw and lfp_tapeimage_open returned a null pointer.       *)
(***************************************************************************)

(* after read_header_from_disk (rh): the read head on the first header *)
TifOpened(rh) ==
    IF rh.exc # NoExc
    THEN Sought(rh.h, rh.exc)
    ELSE Sought([rh.h EXCEPT !.cur = 1,
                             !.rem = rh.h.index[1].next
                                       - (rh.h.zero + TifHeaderSize)],
                NoExc)

(* variant: the base address is not taken from the leaf *)
TifOpenNoBase(f, leaf) ==
    TifOpened(TifReadHeaderFromDisk(f,
        [leaf EXCEPT !.zero = 0, !.index = << >>,
                     !.cur = 0, !.rem = -1, !.recovery = LFP_OK]))

TifOpen(f, leaf) ==
    TifOpened(TifReadHeaderFromDisk(f,
        [leaf EXCEPT !.zero = InnerTell(f, leaf), !.index = << >>,
                     !.cur = 0, !.rem = -1, !.recovery = LFP_OK]))

(***************************************************************************)
(* rp66: address_map, record_index and read_head.  h.index[1] is the ghost *)
(* node; headers are [length, format, major, offset].  The public begin()  *)
(* is position 2, size() is Len - 1 and index_of(itr) is itr - 2.          *)
(***************************************************************************)
(* variant: the base address is left out *)
Rp66LogicalNoBase(zero, addr, record) ==
    addr - (Rp66HeaderSize * (1 + record))

Rp66Logical(zero, addr, record) ==
    addr - (Rp66HeaderSize * (1 + record)) - zero

Rp66Physical(zero, addr, record) ==
    addr + (Rp66HeaderSize * (1 + record)) + zero

Rp66End(hd) == hd.offset + hd.length

Rp66Size(h) == Len(h.index) - 1

Rp66IndexOf(itr) == itr - 2

Rp66Ghost(zero) ==
    [ length |-> Rp66HeaderSize, format |-> 0, major |-> 255,
      offset |-> zero - Rp66HeaderSize ]

Rp66Contains(h, n) ==
    n < Rp66Logical(h.zero, Rp66End(h.index[Len(h.index)]), Rp66Size(h))

Rp66InHint(h, n, hint) ==
    IF Rp66IndexOf(hint) = 0
    THEN n < Rp66Logical(h.zero, Rp66End(h.index[hint]), Rp66IndexOf(hint))
    ELSE /\ n >= Rp66Logical(h.zero, Rp66End(h.index[hint]),
                             Rp66IndexOf(hint) - 1)
         /\ n < Rp66Logical(h.zero, Rp66End(h.index[hint]),
                            Rp66IndexOf(hint))

RECURSIVE Rp66UpperBound(_, _, _, _)
Rp66UpperBound(h, n, first, len) ==
    IF len <= 0
    THEN first
    ELSE IF n < Rp66Logical(h.zero,
                            Rp66End(h.index[first + (len \div 2)]), 0)
         THEN Rp66UpperBound(h, n, first, len \div 2)
         ELSE Rp66UpperBound(h, n, first + (len \div 2) + 1,
                             len - (len \div 2) - 1)

RECURSIVE Rp66FindIf(_, _, _, _)
Rp66FindIf(h, n, i, pos) ==
    IF i > Len(h.index)
    THEN i
    ELSE IF n < Rp66Logical(h.zero, Rp66End(h.index[i]), pos)
         THEN i
         ELSE Rp66FindIf(h, n, i + 1, pos + 1)

(* phase 2 of record_index::find; 0 stands for the logic_error it throws *)
Rp66FindFrom(h, n, lower) ==
    IF Rp66FindIf(h, n, lower, Rp66IndexOf(lower)) > Len(h.index)
    THEN 0
    ELSE Rp66FindIf(h, n, lower, Rp66IndexOf(lower))

(* record_index::find *)
Rp66Find(h, n, hint) ==
    IF Rp66InHint(h, n, hint)
    THEN hint
    ELSE Rp66FindFrom(h, n, Rp66UpperBound(h, n, 2, Len(h.index) - 1))

(* variant: the bytes left in the record are not counted *)
Rp66HeadTellEnd(h) == Rp66End(h.index[h.cur])

Rp66HeadTell(h) == Rp66End(h.index[h.cur]) - h.rem

(* variant: the header is counted as payload *)
Rp66MoveToWhole(h, itr) ==
    [h EXCEPT !.cur = itr, !.rem = h.index[itr].length]

Rp66MoveTo(h, itr) ==
    [h EXCEPT !.cur = itr, !.rem = h.index[itr].length - Rp66HeaderSize]

(* current.move(real_offset - current.tell()), through lfp_seek *)
Rp66MoveToOffset(h, real_offset) ==
    IF HeadCanMove(h, real_offset - Rp66HeadTell(h))
    THEN Sought(HeadMove(h, real_offset - Rp66HeadTell(h)), NoExc)
    ELSE Sought(h, LFP_UNHANDLED_EXCEPTION)

(* read_head::skip *)
HeadSkip(h) == [h EXCEPT !.rem = 0]

(* rp66::eof *)
Rp66Eof(f, h) == InnerEof(f, h)

(* rp66::tell *)
Rp66Tell(h) == Rp66Logical(h.zero, Rp66HeadTell(h), Rp66IndexOf(h.cur))

(***************************************************************************)
(* rp66::read_header_from_disk.  It returns without appending when the     *)
(* leaf is at its end and gave no byte at all.                             *)
(***************************************************************************)
Rp66ParseHeader(b) ==
    [ length |-> ReadBE16(b, 1), format |-> b[3], major |-> b[4] ]

(* the check of format and major, and the append with the record's offset *)
Rp66CheckHeader(h, head, ist) ==
    IF head.format # 255 \/ head.major # 1
    THEN Thrown(h, LFP_PROTOCOL_FATAL_ERROR, ist)
    ELSE Appended(h,
           [ length |-> head.length, format |-> head.format,
             major |-> head.major,
             offset |-> IF Rp66Size(h) # 0
                        THEN Rp66End(h.index[Len(h.index)])
                        ELSE h.zero ],
           ist)

(* the switch on what the leaf answered; r is that answer *)
Rp66HeaderRead(r) ==
    IF r.st = LFP_OKINCOMPLETE
    THEN Thrown(r.h, LFP_IOERROR, r.st)
    ELSE IF r.st = LFP_EOF
    THEN Thrown(r.h, IF r.n = 0 THEN NoExc ELSE LFP_UNEXPECTED_EOF, r.st)
    ELSE Rp66CheckHeader(r.h, Rp66ParseHeader(r.bytes), r.st)

Rp66ReadHeaderFromDisk(f, h) ==
    Rp66HeaderRead(InnerReadinto(f, h, Rp66HeaderSize))

(***************************************************************************)
(* rp66::readinto(void*, int64), private: position on a record that has    *)
(* bytes left, then one read of the leaf.  It leaves [h, n, bytes, exc,    *)
(* obs], n being the count it returns.                                     *)
(***************************************************************************)
Once(h, n, bytes, exc, obs) ==
    [ h |-> h, n |-> n, bytes |-> bytes, exc |-> exc, obs |-> obs ]

RECURSIVE Rp66ReadOnce(_, _, _, _)

(* after read_header_from_disk (rh), h being the handle before it: move to *)
(* the new record if the index has grown, continue                         *)
Rp66OnceAfterHeader(f, h, rh, len, obs) ==
    IF rh.exc # NoExc
    THEN Once(rh.h, 0, << >>, rh.exc, ObsHeader(f, obs, rh))
    ELSE IF Len(rh.h.index) # Len(h.index)
    THEN Rp66ReadOnce(f, Rp66MoveTo(rh.h, Len(rh.h.index)), len,
                      ObsHeader(f, obs, rh))
    ELSE Rp66ReadOnce(f, rh.h, len, ObsHeader(f, obs, rh))

(* after fp->readinto (r): current.move(n) *)
Rp66OnceData(r, obs) ==
    IF HeadCanMove(r.h, r.n)
    THEN Once(HeadMove(r.h, r.n), r.n, r.bytes, NoExc,
              ObsData(obs, r.st, r.h.rem - r.n))
    ELSE Once(r.h, 0, r.bytes, LFP_UNHANDLED_EXCEPTION,
              ObsData(obs, r.st, r.h.rem - r.n))

Rp66ReadOnce(f, h, len, obs) ==
    IF h.rem = 0
    THEN IF Rp66Eof(f, h)
         THEN Once(h, 0, << >>, NoExc, obs)
         ELSE IF h.cur = Len(h.index)
         THEN Rp66OnceAfterHeader(f, h, Rp66ReadHeaderFromDisk(f, h), len,
                                  obs)
         ELSE Rp66ReadOnce(f,
                Rp66MoveTo(InnerSeek(f, h, h.index[h.cur + 1].offset
                                             + Rp66HeaderSize),
                           h.cur + 1),
                len, obs)
    ELSE Rp66OnceData(InnerReadinto(f, h, Min(len, h.rem)), obs)

(***************************************************************************)
(* rp66::readinto (public) through lfp_readinto.  *bytes_read is zeroed    *)
(* first and counted up after every private read.                          *)
(***************************************************************************)
Done(h, out, threw, st, nread, obs) ==
    [ h |-> h, out |-> out, threw |-> threw, st |-> st, nread |-> nread,
      obs |-> obs ]

RECURSIVE Rp66ReadLoop(_, _, _, _, _)

(* one round of the loop, after the private readinto has left r; out is    *)
(* what was copied before this round                                       *)
Rp66ReadRound(f, r, to_read, out) ==
    IF r.exc # NoExc
    THEN Done(r.h, out \o r.bytes, TRUE, r.exc, Len(out), r.obs)
    ELSE IF to_read - r.n = 0
    THEN Done(r.h, out \o r.bytes, FALSE, LFP_OK, Len(out) + r.n, r.obs)
    ELSE IF Rp66Eof(f, r.h)
    THEN IF r.h.rem = 0
         THEN Done(r.h, out \o r.bytes, FALSE, LFP_EOF, Len(out) + r.n,
                   r.obs)
         ELSE Done(r.h, out \o r.bytes, TRUE, LFP_UNEXPECTED_EOF,
                   Len(out) + r.n, r.obs)
    ELSE IF r.n = 0
    THEN Done(r.h, out \o r.bytes, FALSE, LFP_OKINCOMPLETE, Len(out) + r.n,
              r.obs)
    ELSE Rp66ReadLoop(f, r.h, to_read - r.n, out \o r.bytes, r.obs)

Rp66ReadLoop(f, h, to_read, out, obs) ==
    Rp66ReadRound(f, Rp66ReadOnce(f, h, to_read, obs), to_read, out)

Rp66Readinto(f, h, len) == Rp66ReadLoop(f, h, len, << >>, NoObs)

(***************************************************************************)
(* rp66::seek, through lfp_seek.                                           *)
(***************************************************************************)
RECURSIVE Rp66SeekLoop(_, _, _)

(* a header was read and the leaf is at its end: skip what the target asks *)
(* for, at most the bytes of the record                                    *)
Rp66SeekSkip(h, real_offset) ==
    IF HeadCanMove(h, Min(real_offset - Rp66HeadTell(h), h.rem))
    THEN Sought(HeadMove(h, Min(real_offset - Rp66HeadTell(h), h.rem)),
                NoExc)
    ELSE Sought(h, LFP_UNHANDLED_EXCEPTION)

(* the index has grown: h is the handle after current.move(index.last()) *)
Rp66SeekGrown(f, h, n) ==
    IF Rp66Eof(f, h)
    THEN Rp66SeekSkip(h, Rp66Physical(h.zero, n,
                                      Rp66IndexOf(Len(h.index))))
    ELSE Rp66SeekLoop(f, h, n)

(* after read_header_from_disk (rh), h being the handle before it *)
Rp66SeekAfterHeader(f, h, rh, n) ==
    IF rh.exc # NoExc
    THEN Sought(rh.h, rh.exc)
    ELSE IF Len(rh.h.index) # Len(h.index)
    THEN Rp66SeekGrown(f, Rp66MoveTo(rh.h, Len(rh.h.index)), n)
    ELSE IF Rp66Eof(f, rh.h)
    THEN Sought(rh.h, NoExc)
    ELSE Rp66SeekLoop(f, rh.h, n)

(* one round of the while loop; end is the end of index.last().  The loop  *)
(* is followed for MaxChase headers; a call that is still chasing headers  *)
(* then is left as Endless                                                 *)
Rp66SeekRound(f, h, n, end, real_offset) ==
    IF real_offset < end
    THEN Rp66MoveToOffset(InnerSeek(f, h, real_offset), real_offset)
    ELSE IF real_offset = end
    THEN Sought(HeadSkip(InnerSeek(f, h, end)), NoExc)
    ELSE IF Rp66Size(h) >= MaxChase
    THEN Sought(h, Endless)
    ELSE Rp66SeekAfterHeader(f, h,
           Rp66ReadHeaderFromDisk(f, HeadSkip(InnerSeek(f, h, end))), n)

Rp66SeekLoop(f, h, n) ==
    Rp66SeekRound(f, h, n, Rp66End(h.index[Len(h.index)]),
                  Rp66Physical(h.zero, n, Rp66IndexOf(Len(h.index))))

(* the target is indexed: next is what index.find returned *)
Rp66SeekIndexed(f, h, n, next) ==
    IF next = 0
    THEN Sought(h, LFP_UNHANDLED_EXCEPTION)
    ELSE Rp66MoveToOffset(
           Rp66MoveTo(InnerSeek(f, h,
                        Rp66Physical(h.zero, n, Rp66IndexOf(next))),
                      next),
           Rp66Physical(h.zero, n, Rp66IndexOf(next)))

Rp66Seek(f, h, n) ==
    IF Rp66Contains(h, n)
    THEN Rp66SeekIndexed(f, h, n, Rp66Find(h, n, h.cur))
    ELSE Rp66SeekLoop(f, Rp66MoveTo(h, Len(h.index)), n)

(* rp66::rp66: base address from the leaf, index with the ghost node, read *)
(* head on the ghost; nothing is read from the leaf                        *)
Rp66Open(f, leaf) ==
    Sought([leaf EXCEPT !.zero = InnerTell(f, leaf),
                        !.index = << Rp66Ghost(InnerTell(f, leaf)) >>,
                        !.cur = 1, !.rem = 0, !.recovery = LFP_OK],
           NoExc)

(***************************************************************************)
(* The state machine.                                                      *)
(*   file   the file of the behaviour, one of Files                        *)
(*   phase  "leaf": only the leaf exists; "open": the decoder is open;     *)
(*          "null": the open function returned a null pointer; "bare": the *)
(*          leaf is used as a stream of its own; "peeled": lfp_peel has    *)
(*          been called on the decoder; "closed": the outermost handle has *)
(*          been closed; "aborted": an assertion has stopped the program;  *)
(*          "hung": a call has not come back                               *)
(*   h      the handle: leaf position and end-of-file indicator, base      *)
(*          address zero, index, read head (cur, rem), recovery status     *)
(*   junk   the word found in front of the index storage (see TifMoveTo)   *)
(*   last   the last call: operation, argument, status returned, whether   *)
(*          the protocol method threw, the caller's bytes_read variable    *)
(*          after the call, the bytes copied to dst, tell() and eof()      *)
(*          before the call, and what the leaf answered                    *)
(*   prev   operation, argument and status of the call before that         *)
(*   acc    the bytes delivered since open, as long as the caller has only  *)
(*          read (pure); a seek ends the run                                *)
(*   own    who holds the leaf and what has been closed (see Fresh)        *)
(***************************************************************************)
VARIABLES file, phase, h, junk, last, prev, acc, own

vars == << file, phase, h, junk, last, prev, acc, own >>

(* the value the caller stores in bytes_read before a call *)
Unset == -1

(* words an allocator may leave in front of the index storage *)
Garbage == {0, 1, 2}

Leaf(f) ==
    [ ipos |-> f.open_at + f.czero, ieof |-> FALSE, zero |-> 0,
      index |-> << >>, cur |-> 0, rem |-> 0, recovery |-> LFP_OK ]

NoCall ==
    [ op |-> "none", arg |-> 0, st |-> LFP_OK, threw |-> FALSE,
      nread |-> Unset, out |-> << >>, tell0 |-> 0, eof0 |-> FALSE,
      obs |-> NoObs ]

Brief(c) == [ op |-> c.op, arg |-> c.arg, st |-> c.st, eof0 |-> c.eof0 ]

(* tell() and eof() of a leaf used as a stream of its own *)
LeafTell(f, hh) ==
    IF f.kind = "memfile" THEN MemfileTell(hh) ELSE InnerTell(f, hh)

LeafEof(f, hh) ==
    IF f.kind = "memfile" THEN MemfileEof(f, hh) ELSE InnerEof(f, hh)

Tell(f, hh) ==
    IF f.proto = "tif" THEN TifTell(hh)
    ELSE IF f.proto = "rp66" THEN Rp66Tell(hh)
    ELSE LeafTell(f, hh)

Eof(f, hh) ==
    IF f.proto = "tif" THEN TifEof(hh)
    ELSE IF f.proto = "rp66" THEN Rp66Eof(f, hh)
    ELSE LeafEof(f, hh)

(* variant: the position is counted from the cfile's zero, as tell() does *)
CfilePtellFromZero(f, hh) == hh.ipos - f.czero

(* cfile::ptell: ftell of the FILE, the absolute position *)
CfilePtell(f, hh) == hh.ipos

(* ptell of the memory file: the current position in the buffer *)
MemfilePtell(hh) == hh.ipos

(* ptell() of a leaf *)
LeafPtell(f, hh) ==
    IF f.kind = "memfile" THEN MemfilePtell(hh) ELSE CfilePtell(f, hh)

(* ptell of the tape image and of rp66: the answer of the layer below *)
TifPtell(f, hh) == LeafPtell(f, hh)

Rp66Ptell(f, hh) == LeafPtell(f, hh)

(* lfp_ptell(f, &n) *)
Ptell(f, hh) ==
    IF f.proto = "tif" THEN TifPtell(f, hh)
    ELSE IF f.proto = "rp66" THEN Rp66Ptell(f, hh)
    ELSE LeafPtell(f, hh)

(* the leaf's readinto as lfp_readinto sees it *)
LeafReturn(a) ==
    [ h |-> a.h, out |-> a.bytes, threw |-> FALSE, st |-> a.st,
      nread |-> a.n, obs |-> NoObs ]

LeafReadinto(f, hh, len) ==
    LeafReturn(IF f.kind = "memfile" THEN MemfileReadinto(f, hh, len)
                                     ELSE InnerReadinto(f, hh, len))

(* the leaf's seek as lfp_seek sees it *)
LeafSeekTo(f, hh, n) ==
    IF f.kind = "memfile" THEN MemfileSeek(f, hh, n)
                          ELSE Sought(InnerSeek(f, hh, n), NoExc)

(***************************************************************************)
(* Who holds what.  outer: the decoder object ("none" before open and      *)
(* after a failed open, "alive", "deleted"); fp: the decoder's unique_lfp  *)
(* holds the leaf; inner: the leaf object ("alive", "deleted"); closes:    *)
(* the calls of the leaf's close(); fcloses: the times the leaf's host     *)
(* resource was closed; call, st: the call just made when it was a close,  *)
(* a peel or a peek, and its status; got: that call stored a stream in     *)
(* *inner; reads: the reads made on a leaf handed back to the caller.      *)
(***************************************************************************)
Fresh ==
    [ outer |-> "none", fp |-> FALSE, inner |-> "alive",
      closes |-> 0, fcloses |-> 0, got |-> FALSE,
      call |-> "", st |-> LFP_OK, reads |-> 0 ]

(* the call just made: close, close_leaf, peel or peek with its status, or *)
(* "" after a call of another kind                                         *)
Called(o, call, st) == [o EXCEPT !.call = call, !.st = st, !.got = FALSE]

(* variant: cfile::close keeps the FILE it has closed and closes it again  *)
LeafClosedAgain(o) ==
    [o EXCEPT !.closes = o.closes + 1,
              !.fcloses = IF file.kind = "cfile"
                          THEN o.fcloses + 1 ELSE o.fcloses]

(* the leaf's close(): cfile::close closes the FILE once and lets go of    *)
(* it; memfile::close and blockedpipe::close do nothing.  The host         *)
(* resource of those leaves is given back when the object is deleted.      *)
LeafClosed(o) ==
    [o EXCEPT !.closes = o.closes + 1,
              !.fcloses = IF file.kind = "cfile" /\ o.fcloses = 0
                          THEN 1 ELSE o.fcloses]

(* delete of the leaf: ~cfile closes the FILE if it still holds it *)
LeafDeleted(o) ==
    [o EXCEPT !.inner = "deleted",
              !.fcloses = IF o.fcloses = 0 THEN 1 ELSE o.fcloses]

(* lfp_close(leaf): close(), then delete *)
LfpCloseLeaf(o) == LeafDeleted(LeafClosed(o))

(* unique_lfp::close: fp->close(), then reset(nullptr), whose deleter is   *)
(* lfp_close                                                               *)
UniqueClose(o) == [LfpCloseLeaf(LeafClosed(o)) EXCEPT !.fp = FALSE]

(* variant: close() does not look whether the decoder still holds a leaf *)
DecoderCloseAlways(o) == UniqueClose(o)

(* tapeimage::close / rp66::close *)
DecoderClose(o) == IF o.fp THEN UniqueClose(o) ELSE o

(* lfp_close(decoder): close(), then delete; the destructor of a           *)
(* unique_lfp that still holds the leaf would run the deleter              *)
LfpCloseDecoder(o) == [DecoderClose(o) EXCEPT !.outer = "deleted"]

(* variant: the constructor that fails lets its unique_lfp close the leaf *)
CtorFailedClosing(o) == LfpCloseLeaf(o)

(* tapeimage::tapeimage when read_header_from_disk throws: fp.release(),   *)
(* so that the destructor of the member has nothing to close               *)
CtorFailed(o) == [o EXCEPT !.fp = FALSE]

(* the caller holds the leaf and may use it *)
InnerFree == own.inner = "alive" /\ ~ own.fp

Init ==
    /\ file \in {Files[i] : i \in 1..Len(Files)}
    /\ phase = (IF file.proto = "none" THEN "bare" ELSE "leaf")
    /\ h = Leaf(file)
    /\ junk = 0
    /\ last = NoCall
    /\ prev = Brief(NoCall)
    /\ acc = [ pure |-> TRUE, bytes |-> << >> ]
    /\ own = Fresh

(* lfp_tapeimage_open / lfp_rp66_open, once the constructor has left r *)
Opened(r) ==
    /\ h' = r.h
    /\ phase' = IF r.exc = NoExc THEN "open" ELSE "null"
    /\ own' = IF r.exc = NoExc
              THEN [own EXCEPT !.outer = "alive", !.fp = TRUE]
              ELSE CtorFailed(own)
    /\ IF file.proto = "tif" /\ r.exc = NoExc
       THEN junk' \in {g \in Garbage :
                         g + TifHeaderSize <= r.h.index[1].next}
       ELSE junk' = 0
    /\ last' = [NoCall EXCEPT !.op = "open",
                   !.st = IF r.exc = NoExc THEN LFP_OK ELSE r.exc,
                   !.threw = r.exc # NoExc]

(* lfp_tapeimage_open / lfp_rp66_open *)
Open ==
    /\ phase = "leaf"
    /\ Opened(IF file.proto = "tif" THEN TifOpen(file, h)
                                    ELSE Rp66Open(file, h))
    /\ prev' = Brief(last)
    /\ UNCHANGED << file, acc >>

(* lfp_readinto, once the protocol's readinto has left r; tell0 and eof0   *)
(* are tell() and eof() of the handle before the call                      *)
ReadReturned(len, r, tell0, eof0) ==
    /\ h' = r.h
    /\ last' = [ op |-> "read", arg |-> len, st |-> r.st,
                 threw |-> r.threw, nread |-> r.nread, out |-> r.out,
                 tell0 |-> tell0, eof0 |-> eof0, obs |-> r.obs ]

ReadReturn(len, r) ==
    /\ h' = r.h
    /\ last' = [ op |-> "read", arg |-> len, st |-> r.st,
                 threw |-> r.threw, nread |-> r.nread, out |-> r.out,
                 tell0 |-> Tell(file, h), eof0 |-> Eof(file, h),
                 obs |-> r.obs ]
    /\ acc' = IF acc.pure
              THEN [acc EXCEPT !.bytes = acc.bytes \o r.out]
              ELSE acc

(* lfp_readinto(f, dst, len, &bytes_read) *)
Read(len) ==
    /\ phase = "open"
    /\ ReadReturn(len, IF file.proto = "tif"
                       THEN TifReadinto(file, h, len, Unset)
                       ELSE Rp66Readinto(file, h, len))
    /\ prev' = Brief(last)
    /\ own' = Called(own, "", LFP_OK)
    /\ UNCHANGED << file, phase, junk >>

(* lfp_seek, once the protocol's seek has left r *)
SeekReturn(n, r) ==
    /\ h' = r.h
    /\ last' = [NoCall EXCEPT !.op = "seek", !.arg = n,
                   !.st = IF r.exc = NoExc THEN LFP_OK ELSE r.exc,
                   !.threw = r.exc # NoExc,
                   !.tell0 = Tell(file, h), !.eof0 = Eof(file, h)]

(* lfp_seek(f, n) *)
Seek(n) ==
    /\ phase = "open"
    /\ SeekReturn(n, IF file.proto = "tif" THEN TifSeek(file, h, n, junk)
                                           ELSE Rp66Seek(file, h, n))
    /\ phase' = IF last'.st = Endless THEN "hung" ELSE phase
    /\ prev' = Brief(last)
    /\ acc' = [ pure |-> FALSE, bytes |-> << >> ]
    /\ own' = Called(own, "", LFP_OK)
    /\ UNCHANGED << file, junk >>

(* lfp_readinto(f, dst, len, &bytes_read) on a leaf *)
LeafRead(len) ==
    /\ phase = "bare" /\ InnerFree
    /\ ReadReturn(len, LeafReadinto(file, h, len))
    /\ prev' = Brief(last)
    /\ own' = Called(own, "", LFP_OK)
    /\ UNCHANGED << file, phase, junk >>

(* lfp_seek(f, n) on a leaf *)
LeafSeek(n) ==
    /\ phase = "bare" /\ InnerFree
    /\ SeekReturn(n, LeafSeekTo(file, h, n))
    /\ prev' = Brief(last)
    /\ acc' = [ pure |-> FALSE, bytes |-> << >> ]
    /\ own' = Called(own, "", LFP_OK)
    /\ UNCHANGED << file, phase, junk >>

(* lfp_readinto on the leaf that a failed open has left to the caller or   *)
(* that lfp_peel has handed out                                            *)
InnerRead(len) ==
    /\ phase \in {"null", "peeled", "closed"} /\ InnerFree
    /\ own.reads < MaxInnerReads
    /\ ReadReturned(len, LeafReadinto(file, h, len),
                    LeafTell(file, h), LeafEof(file, h))
    /\ prev' = Brief(last)
    /\ acc' = [ pure |-> FALSE, bytes |-> << >> ]
    /\ own' = [Called(own, "", LFP_OK) EXCEPT !.reads = own.reads + 1]
    /\ UNCHANGED << file, phase, junk >>

(* lfp_close(f) on the decoder *)
Close ==
    /\ phase \in {"open", "peeled"} /\ file \in LifeFiles
    /\ own' = Called(LfpCloseDecoder(own), "close", LFP_OK)
    /\ phase' = "closed"
    /\ UNCHANGED << file, h, junk, last, prev, acc >>

(* lfp_close(f) on a leaf the caller holds *)
CloseLeaf ==
    /\ phase \in {"null", "peeled", "closed", "bare"} /\ InnerFree
    /\ file \in LifeFiles
    /\ own' = Called(LfpCloseLeaf(own), "close_leaf", LFP_OK)
    /\ phase' = IF phase = "bare" THEN "closed" ELSE phase
    /\ UNCHANGED << file, h, junk, last, prev, acc >>

(* tapeimage::peel / rp66::peel: unique_lfp::release gives the pointer the  *)
(* decoder holds, a null pointer when it holds none; got tells whether the *)
(* pointer is a stream                                                     *)
UniqueRelease(o) == [o EXCEPT !.fp = FALSE, !.got = o.fp]

(* tapeimage::peek / rp66::peek: unique_lfp::get *)
UniqueGet(o) == [o EXCEPT !.got = o.fp]

(* lfp_peel / lfp_peek once the decoder has answered: a null pointer is an *)
(* io-error and *inner is left alone                                       *)
Handed(o, call) ==
    [o EXCEPT !.call = call,
              !.st = IF o.got THEN LFP_OK ELSE LFP_IOERROR]

(* assert(this->fp) at the head of peel() and peek(): a build with         *)
(* assertions stops the program there when the decoder holds no leaf, a    *)
(* build without them goes on with the null pointer                        *)
AssertFails(o, asserting) == asserting /\ ~ o.fp

(* the program has been stopped inside the call: no status is returned *)
Aborted(o, call) == [o EXCEPT !.call = call, !.st = Abort, !.got = FALSE]

(* lfp_peel(outer, &inner) *)
Peel ==
    /\ phase \in {"open", "peeled"} /\ file \in LifeFiles
    /\ \E asserting \in BOOLEAN :
         IF AssertFails(own, asserting)
         THEN /\ own' = Aborted(own, "peel")
              /\ phase' = "aborted"
         ELSE /\ own' = Handed(UniqueRelease(own), "peel")
              /\ phase' = "peeled"
    /\ UNCHANGED << file, h, junk, last, prev, acc >>

(* lfp_peek(outer, &inner) *)
Peek ==
    /\ phase \in {"open", "peeled"} /\ file \in LifeFiles
    /\ \E asserting \in BOOLEAN :
         IF AssertFails(own, asserting)
         THEN /\ own' = Aborted(own, "peek")
              /\ phase' = "aborted"
         ELSE /\ own' = Handed(UniqueGet(own), "peek")
              /\ phase' = phase
    /\ UNCHANGED << file, h, junk, last, prev, acc >>

Next ==
    \/ Open
    \/ \E len \in 0..MaxLen : Read(len)
    \/ \E n \in (0..MaxSeek) \cup {UInt32Max + 1} : Seek(n)
    \/ \E len \in 0..MaxLen : LeafRead(len)
    \/ \E n \in 0..MaxSeek : LeafSeek(n)
    \/ \E len \in 0..MaxInnerLen : InnerRead(len)
    \/ Close
    \/ CloseLeaf
    \/ Peel
    \/ Peek

Spec == Init /\ [][Next]_vars

(***************************************************************************)
(* Properties.  Size is the logical size of a well-formed file.            *)
(***************************************************************************)
Size == Len(file.payload)

(* C1: on a well-formed tape-image or rp66 file, after seek(n) returned ok *)
(* with 0 <= n < size, a read of k <= size - n bytes returns ok and        *)
(* delivers exactly the payload bytes n .. n+k-1, whatever calls came      *)
(* before.                                                                 *)
C1_SeekThenRead ==
    ( /\ phase = "open" /\ file.wellformed
      /\ prev.op = "seek" /\ prev.st = LFP_OK /\ prev.arg < Size
      /\ last.op = "read" /\ last.arg <= Size - prev.arg )
    => ( /\ last.st = LFP_OK
         /\ last.out = SubSeq(file.payload, prev.arg + 1,
                              prev.arg + last.arg) )

(* C2: on a well-formed file, reading from open towards the end, in one    *)
(* read or in any sequence of reads, delivers the record payloads in file  *)
(* order and nothing else: every read delivers the next min(len, rest)     *)
(* bytes of the payload, and a read that ends with eof has completed it.   *)
C2_ReadToEnd ==
    ( /\ phase = "open" /\ file.wellformed
      /\ acc.pure /\ last.op = "read" )
    => LET before == Len(acc.bytes) - Len(last.out)
           rest   == Size - before
       IN  /\ last.out = SubSeq(file.payload, before + 1,
                                before + Min(last.arg, rest))
           /\ acc.bytes = SubSeq(file.payload, 1, Len(acc.bytes))
           /\ (last.st = LFP_EOF => acc.bytes = file.payload)
           /\ (last.arg > rest => last.st = LFP_EOF)

(* a file with an empty record was read to its end in more than one read *)
C2_Witness ==
    /\ phase = "open" /\ file \in {TifPlain, Rp66Empty}
    /\ acc.pure /\ last.op = "read" /\ last.st = LFP_EOF
    /\ acc.bytes = file.payload
    /\ Len(last.out) > 0 /\ Len(last.out) < Len(acc.bytes)

(* C3: after seek(n) returned ok with n smaller than the logical size,     *)
(* tell() is n, at a record border, for a target not yet indexed and for a *)
(* decoder opened at a non-zero offset of the leaf alike.                  *)
C3_TellAfterSeek ==
    ( /\ phase = "open" /\ file.wellformed
      /\ last.op = "seek" /\ last.st = LFP_OK /\ last.arg < Size )
    => Tell(file, h) = last.arg

(* right after open, a decoder opened 3 bytes into the leaf seeks to the   *)
(* first byte of the second record, which is not indexed yet               *)
C3_Witness ==
    /\ phase = "open" /\ file \in {TifOffset, Rp66Offset}
    /\ prev.op = "open" /\ last.op = "seek" /\ last.st = LFP_OK
    /\ last.arg = (IF file.proto = "tif" THEN 2 ELSE 4)
    /\ Tell(file, h) = last.arg

C5_ReadAdvancesTell ==
    ( /\ phase = "open" /\ last.op = "read" /\ last.nread # Unset )
    => Tell(file, h) = last.tell0 + last.nread

(* a read that crossed the empty record of the file and stopped short *)
C5_Witness ==
    /\ phase = "open" /\ file \in {TifPlain, Rp66Empty}
    /\ last.op = "read" /\ last.tell0 = 1 /\ last.nread = 4
    /\ last.arg > last.nread /\ Tell(file, h) = 5

(* the read head stands on a file-type header *)
OnMarker(hh) == hh.index[hh.cur].type = TifFile

InPayload(b) == \E j \in DOMAIN file.payload : file.payload[j] = b

(* C6: a tape-image read that reaches a file-type header returns the bytes *)
(* in front of it with status eof, and every later read returns eof with 0 *)
(* bytes; no byte located after the header is delivered.                   *)
C6_EofAtMarker ==
    ( /\ phase = "open" /\ file.proto = "tif" /\ last.op = "read" )
    => /\ (file.wellformed
             => \A i \in DOMAIN last.out : InPayload(last.out[i]))
       /\ (OnMarker(h)
             => /\ last.st = LFP_EOF
                /\ (last.eof0 => last.out = << >> /\ last.nread = 0))

(* C6, amended: a read with len > 0 that reaches a file-type header, or    *)
(* starts on one, returns eof, or try-recovery once the recovery flag is   *)
(* set, with the payload bytes in front of the header (none when it starts *)
(* on it); no byte located after the header is delivered.                  *)
C6_StopsAtMarker ==
    ( /\ phase = "open" /\ file.proto = "tif" /\ last.op = "read" )
    => /\ (file.wellformed
             => \A i \in DOMAIN last.out : InPayload(last.out[i]))
       /\ (OnMarker(h) /\ last.arg > 0
             => /\ last.st = (IF h.recovery # LFP_OK THEN h.recovery
                                                     ELSE LFP_EOF)
                /\ last.nread = Len(last.out)
                /\ (file.wellformed
                      => last.out = SubSeq(file.payload,
                                           Size - Len(last.out) + 1, Size))
                /\ (last.eof0 => last.out = << >>))

(* a read of a file with records behind the marker stopped at the marker   *)
(* with one byte, and the next read got nothing                            *)
C6_Witness ==
    /\ phase = "open" /\ file = TifFileMid
    /\ prev.op = "read" /\ prev.st = LFP_EOF
    /\ last.op = "read" /\ last.arg > 0 /\ last.eof0
    /\ last.st = LFP_EOF /\ last.nread = 0 /\ OnMarker(h)

(* the stream has ended where the decoder stands *)
Ended ==
    IF file.proto = "tif" THEN OnMarker(h)
                          ELSE InnerEof(file, h) /\ h.rem = 0

C9_BytesReadOnError ==
    ( /\ phase = "open" /\ last.op = "read"
      /\ last.st \notin {LFP_OK, LFP_OKINCOMPLETE, LFP_EOF} )
    => last.nread = Len(last.out)

(* C10: once the recovery flag of a tape image is set, no read or seek     *)
(* clears it, and every read that succeeds from then on returns            *)
(* try-recovery.                                                           *)
C10_RecoverySticky ==
    [][ h.recovery # LFP_OK
        => ( /\ h'.recovery = h.recovery
             /\ ( last'.op = "read" /\ ~ last'.threw
                  => last'.st = LFP_PROTOCOL_TRYRECOVERY ) ) ]_vars

(* a read that met no header, after a seek, on a handle in recovery *)
C10_Witness ==
    /\ phase = "open" /\ file.proto = "tif"
    /\ h.recovery = LFP_PROTOCOL_TRYRECOVERY
    /\ prev.op = "seek" /\ prev.st = LFP_OK
    /\ last.op = "read" /\ ~ last.threw /\ last.obs.header = ""
    /\ Len(last.out) = last.arg /\ last.arg > 0
    /\ last.st = LFP_PROTOCOL_TRYRECOVERY

(***************************************************************************)
(* The headers a call has parsed.  A call that starts with the handle h0   *)
(* and leaves h1 with the record l1 has parsed the headers number          *)
(* Len(h0.index) + 1 and up, each against the index in front of it.  A     *)
(* read takes them where the leaf stands (l1.obs.at).  A seek and the      *)
(* constructor take header j at HeaderPos(h1, j): the constructor at the   *)
(* base, a seek where the next of the header before points; they have      *)
(* accepted the headers h0's index lacks and have rejected one more when   *)
(* they threw a protocol status with the leaf just behind it.              *)
(***************************************************************************)
HeaderPos(hh, j) == IF j = 1 THEN hh.zero ELSE hh.index[j - 1].next

(* the header at offset p of the leaf, as read_header_from_disk parses it *)
HeaderOnDisk(p) ==
    TifParseHeader(SubSeq(file.data, p + file.czero + 1,
                          p + file.czero + TifHeaderSize))

Rejected(h1, l1) ==
    /\ l1.threw
    /\ l1.st \in {LFP_PROTOCOL_FAILEDRECOVERY, LFP_PROTOCOL_FATAL_ERROR}
    /\ h1.ipos = HeaderPos(h1, Len(h1.index) + 1) + file.czero
                   + TifHeaderSize

HeadersParsed(h0, h1, l1) ==
    IF l1.op = "read"
    THEN (Len(h0.index) + 1)..(Len(h0.index) + Len(l1.obs.at))
    ELSE {j \in (Len(h0.index) + 1)..(Len(h1.index) + 1) :
            j <= Len(h1.index) \/ Rejected(h1, l1)}

(* header j of the call, as it stands on the disk *)
Parsed(h0, h1, l1, j) ==
    HeaderOnDisk(IF l1.op = "read" THEN l1.obs.at[j - Len(h0.index)]
                                   ELSE HeaderPos(h1, j))

BadType(head) == head.type \notin {TifRecord, TifFile}

(* prev against the next of the descriptor two back, or against the base   *)
(* when one descriptor precedes                                            *)
BadPrev(hh, j, head) ==
    \/ j >= 3 /\ head.prev # hh.index[j - 2].next
    \/ j = 2 /\ head.prev # hh.zero

(* C11: while a tape image is in recovery, a call that parses a header     *)
(* with an invalid type, or with a prev that disagrees with the index,     *)
(* fails with failed-recovery.                                             *)
C11_FailedRecovery ==
    [][ ( phase = "open" /\ file.proto = "tif" /\ h.recovery # LFP_OK )
        => \A j \in HeadersParsed(h, h', last') :
             ( \/ BadType(Parsed(h, h', last', j))
               \/ BadPrev(h', j, Parsed(h, h', last', j)) )
             => last'.st = LFP_PROTOCOL_FAILEDRECOVERY ]_vars

(* C11 amended: the call fails with failed-recovery, unless the header has *)
(* a valid type and next <= prev: then it fails with protocol-fatal.       *)
C11_FailedRecoveryOrFatal ==
    [][ ( phase = "open" /\ file.proto = "tif" /\ h.recovery # LFP_OK )
        => \A j \in HeadersParsed(h, h', last') :
             ( \/ BadType(Parsed(h, h', last', j))
               \/ BadPrev(h', j, Parsed(h, h', last', j)) )
             => last'.st =
                  IF /\ ~ BadType(Parsed(h, h', last', j))
                     /\ Parsed(h, h', last', j).next
                          <= Parsed(h, h', last', j).prev
                  THEN LFP_PROTOCOL_FATAL_ERROR
                  ELSE LFP_PROTOCOL_FAILEDRECOVERY ]_vars

(* a read returned try-recovery, and the seek after it met a header of     *)
(* valid type whose prev disagrees with the index, and failed with         *)
(* failed-recovery                                                         *)
C11_Witness ==
    /\ phase = "open" /\ file.proto = "tif"
    /\ prev.op = "read" /\ prev.st = LFP_PROTOCOL_TRYRECOVERY
    /\ last.op = "seek" /\ Rejected(h, last)
    /\ last.st = LFP_PROTOCOL_FAILEDRECOVERY
    /\ ~ BadType(HeaderOnDisk(HeaderPos(h, Len(h.index) + 1)))
    /\ BadPrev(h, Len(h.index) + 1,
               HeaderOnDisk(HeaderPos(h, Len(h.index) + 1)))

(***************************************************************************)
(* The file f with the type field of the header at offset p set to 0, and  *)
(* what a decoder opened over it delivers to one read of n bytes.          *)
(***************************************************************************)
WithRecordType(f, p) ==
    [f EXCEPT !.data = [k \in 1..Len(f.data) |->
                          IF k \in (p + f.czero + 1)..(p + f.czero + 4)
                          THEN 0 ELSE f.data[k]]]

ReadAfterOpen(f, opened, n) == TifReadinto(f, opened.h, n, Unset).out

Delivered(f, n) == ReadAfterOpen(f, TifOpen(f, Leaf(f)), n)

(* the bytes of record j the read head has passed *)
PassedInRecord(hh, j) ==
    hh.index[j].next - (HeaderPos(hh, j) + TifHeaderSize) - hh.rem

(* C12: a read that crosses the first tape-image header with a type other  *)
(* than 0 and 1 (prev and next consistent) returns try-recovery, and the   *)
(* bytes delivered since open are those the file delivers with that type   *)
(* field set to 0.                                                         *)
C12_BadTypeAsRecord ==
    [][ ( /\ phase = "open" /\ file.proto = "tif"
          /\ last'.op = "read" /\ ~ last'.threw /\ acc'.pure )
        => \A j \in (Len(h.index) + 1)..Len(h'.index) :
             BadType(Parsed(h, h', last', j))
             => /\ last'.st = LFP_PROTOCOL_TRYRECOVERY
                /\ acc'.bytes
                     = Delivered(WithRecordType(file,
                                   last'.obs.at[j - Len(h.index)]),
                                 Len(acc'.bytes)) ]_vars

(* a read that took bytes on both sides of a header with an unknown type *)
C12_Witness ==
    /\ phase = "open" /\ file.proto = "tif" /\ acc.pure
    /\ last.op = "read" /\ last.st = LFP_PROTOCOL_TRYRECOVERY
    /\ Len(last.obs.at) = 1
    /\ h.cur = Len(h.index) /\ h.cur > 1
    /\ BadType(HeaderOnDisk(last.obs.at[1]))
    /\ PassedInRecord(h, h.cur) > 0
    /\ Len(last.out) > PassedInRecord(h, h.cur)
    /\ Len(acc.bytes) > 0

(* the recovery flag is up when a call that starts with h0 and leaves h1,  *)
(* l1 parses header j: it was up before the call, or a header the call has    *)
(* accepted before j raised it                                             *)
RecoveryAt(h0, h1, l1, j) ==
    \/ h0.recovery # LFP_OK
    \/ \E i \in (Len(h0.index) + 1)..(j - 1) :
          \/ BadType(Parsed(h0, h1, l1, i))
          \/ i >= 3 /\ BadPrev(h1, i, Parsed(h0, h1, l1, i))

NextLePrev(head) == head.next <= head.prev

(* C13: a call that parses a tape-image header with next <= prev fails     *)
(* with protocol-fatal, and the header does not enter the index.           *)
C13_NextLePrevFatal ==
    [][ file.proto = "tif"
        => \A j \in HeadersParsed(h, h', last') :
             NextLePrev(Parsed(h, h', last', j))
             => /\ j > Len(h'.index)
                /\ last'.st = LFP_PROTOCOL_FATAL_ERROR ]_vars

(* C13 amended: the header does not enter the index, and the call fails    *)
(* with protocol-fatal, unless the header has an invalid type as well and  *)
(* the recovery flag is up: then the call fails with failed-recovery.      *)
C13_NextLePrevRejected ==
    [][ file.proto = "tif"
        => \A j \in HeadersParsed(h, h', last') :
             NextLePrev(Parsed(h, h', last', j))
             => /\ j > Len(h'.index)
                /\ last'.st =
                     IF /\ BadType(Parsed(h, h', last', j))
                        /\ RecoveryAt(h, h', last', j)
                     THEN LFP_PROTOCOL_FAILEDRECOVERY
                     ELSE LFP_PROTOCOL_FATAL_ERROR ]_vars

(* a seek has met a header of valid type with next <= prev and has failed  *)
(* with protocol-fatal                                                     *)
C13_Witness ==
    /\ phase = "open" /\ file.proto = "tif"
    /\ last.op = "seek" /\ Rejected(h, last)
    /\ last.st = LFP_PROTOCOL_FATAL_ERROR
    /\ ~ BadType(HeaderOnDisk(HeaderPos(h, Len(h.index) + 1)))
    /\ NextLePrev(HeaderOnDisk(HeaderPos(h, Len(h.index) + 1)))

(* the leaf ends where the header after the last indexed record begins *)
EndsAtHeader(hh) ==
    Len(file.data) = hh.index[Len(hh.index)].next + file.czero

(* C14: a read of a tape image that finds the leaf at its end, with no     *)
(* byte at all, where the next header begins returns eof and reports the   *)
(* payload bytes read so far.                                              *)
C14_EofAtHeaderBoundary ==
    ( /\ phase = "open" /\ file.proto = "tif"
      /\ last.op = "read" /\ last.obs.header = LFP_EOF
      /\ EndsAtHeader(h) )
    => ( last.st = LFP_EOF /\ last.nread = Len(last.out) )

(***************************************************************************)
(* The logical end of a tape image whose framing has no fault: the payload *)
(* bytes of the records from offset p on, up to the first file-type header *)
(* or to the end of the leaf.                                              *)
(***************************************************************************)
RECURSIVE PayloadFrom(_, _)
PayloadFrom(f, p) ==
    IF p + f.czero + TifHeaderSize > Len(f.data)
    THEN 0
    ELSE IF ReadLE32(f.data, p + f.czero + 1) = TifFile
    THEN 0
    ELSE ReadLE32(f.data, p + f.czero + 9) - (p + TifHeaderSize)
           + PayloadFrom(f, ReadLE32(f.data, p + f.czero + 9))

LogicalEnd == PayloadFrom(file, file.open_at)

(* a tape image with sound framing; TifNoMark lacks the trailing marker *)
SoundTif == file.proto = "tif" /\ (file.wellformed \/ file = TifNoMark)

(* C15: on a tape image, seek(N) with N beyond the logical end (and        *)
(* within 32 bits) returns ok, and a read of 1 byte right after it returns *)
(* eof with 0 bytes.                                                       *)
C15_SeekPastEnd ==
    /\ ( /\ phase = "open" /\ SoundTif
         /\ last.op = "seek" /\ last.arg > LogicalEnd
         /\ last.arg <= UInt32Max )
       => last.st = LFP_OK
    /\ ( /\ phase = "open" /\ SoundTif
         /\ prev.op = "seek" /\ prev.arg > LogicalEnd /\ prev.st = LFP_OK
         /\ last.op = "read" /\ last.arg = 1 )
       => ( last.st = LFP_EOF /\ last.nread = 0 /\ last.out = << >> )

(* n is the logical offset of the first byte of record j of the index *)
StartsRecord(hh, j, n) ==
    /\ hh.index[j].next > hh.index[j - 1].next + TifHeaderSize
    /\ n = TifLogical(hh.zero, hh.index[j - 1].next + TifHeaderSize, j - 1)

(* the handle after a read of n bytes right after the constructor *)
ReadAfterOpenHandle(f, opened, n) == TifReadinto(f, opened.h, n, Unset).h

ReadUpTo(f, n) == ReadAfterOpenHandle(f, TifOpen(f, Leaf(f)), n)

RECURSIVE Rp66Border(_, _, _, _)
Rp66Border(f, p, l, x) ==
    IF p + f.czero + Rp66HeaderSize > Len(f.data)
    THEN FALSE
    ELSE \/ l = x
         \/ Rp66Border(f, p + ReadBE16(f.data, p + f.czero + 1),
                       l + ReadBE16(f.data, p + f.czero + 1)
                         - Rp66HeaderSize,
                       x)

(* the handle after a read of n bytes right after lfp_rp66_open *)
Rp66ReadAfterOpenHandle(f, opened, n) == Rp66Readinto(f, opened.h, n).h

Rp66ReadUpTo(f, n) == Rp66ReadAfterOpenHandle(f, Rp66Open(f, Leaf(f)), n)

(* C17: on rp66, a seek to a logical offset x > 0 where a record begins    *)
(* leaves the leaf where a read of x bytes from the start leaves it,       *)
(* whether the record at x is indexed or not.                              *)
C17_Rp66SeekToBorder ==
    ( /\ phase = "open" /\ file.proto = "rp66" /\ file.wellformed
      /\ last.op = "seek" /\ last.st = LFP_OK
      /\ last.arg > 0 /\ last.arg < Size
      /\ Rp66Border(file, file.open_at, 0, last.arg) )
    => h.ipos = Rp66ReadUpTo(file, last.arg).ipos

(***************************************************************************)
(* An rp66 file opened z = f.open_at bytes into the leaf, against the same *)
(* file with those z bytes removed.  Shifted maps a handle of the first to *)
(* the handle of the second that stands at the same byte: every physical   *)
(* offset it holds is z less.                                              *)
(***************************************************************************)
Trimmed(f) ==
    [f EXCEPT !.data = SubSeq(f.data, 1, f.czero)
                         \o SubSeq(f.data, f.czero + f.open_at + 1,
                                   Len(f.data)),
              !.open_at = 0]

Shifted(hh, z) ==
    [hh EXCEPT !.ipos = hh.ipos - z,
               !.zero = hh.zero - z,
               !.index = [i \in DOMAIN hh.index |->
                            [hh.index[i] EXCEPT
                               !.offset = hh.index[i].offset - z]]]

(* the constructor over the trimmed file has left r *)
SameOpen(r, h1, l1) ==
    /\ r.h = Shifted(h1, file.open_at)
    /\ (r.exc # NoExc) = l1.threw
    /\ Rp66Tell(r.h) = 0 /\ Rp66Tell(h1) = 0

(* the read over the trimmed file has left r *)
SameRead(r, h1, l1) ==
    /\ r.h = Shifted(h1, file.open_at)
    /\ r.st = l1.st /\ r.out = l1.out /\ r.nread = l1.nread
    /\ Rp66Tell(r.h) = Rp66Tell(h1)

(* the seek over the trimmed file has left r *)
SameSeek(r, h1, l1) ==
    /\ r.h = Shifted(h1, file.open_at)
    /\ (IF r.exc = NoExc THEN LFP_OK ELSE r.exc) = l1.st
    /\ Rp66Tell(r.h) = Rp66Tell(h1)

(* C18: an rp66 decoder opened z > 0 bytes into the leaf and the decoder   *)
(* opened at 0 over the data without its first z bytes go through the same *)
(* calls in step: from handles that match, every open, read and seek       *)
(* leaves handles that match, with the same bytes, counts, tells and       *)
(* statuses; tell is 0 after the open.                                     *)
C18_Rp66OffsetOpen ==
    [][ ( file.proto = "rp66" /\ file.open_at > 0 )
        => /\ last'.op = "open"
              => SameOpen(Rp66Open(Trimmed(file), Leaf(Trimmed(file))),
                          h', last')
           /\ last'.op = "read"
              => SameRead(Rp66Readinto(Trimmed(file),
                                       Shifted(h, file.open_at),
                                       last'.arg),
                          h', last')
           /\ last'.op = "seek"
              => SameSeek(Rp66Seek(Trimmed(file),
                                   Shifted(h, file.open_at), last'.arg),
                          h', last') ]_vars

(* a read that delivered bytes after a seek, on a file opened z > 0 bytes  *)
(* into the leaf                                                           *)
C18_Witness ==
    /\ phase = "open" /\ file.proto = "rp66" /\ file.open_at > 0
    /\ prev.op = "seek" /\ prev.st = LFP_OK /\ prev.arg > 0
    /\ last.op = "read" /\ Len(last.out) > 1
    /\ Len(h.index) > 2

(* C19: a seek to an offset above 2^32 - 1 fails with invalid-args and     *)
(* leaves the logical position, the read head and the position of the leaf *)
(* as they were.                                                           *)
C19_SeekTooFar ==
    [][ ( phase = "open" /\ last'.op = "seek" /\ last'.arg > UInt32Max )
        => /\ last'.st = LFP_INVALID_ARGS
           /\ h' = h
           /\ Tell(file, h') = Tell(file, h) ]_vars

(* the read head stands on a header that carries the file type on the leaf *)
StandsOnFile(hh) ==
    /\ file.proto = "tif" /\ hh.cur > 0
    /\ HeaderOnDisk(HeaderPos(hh, hh.cur)).type = TifFile

ReadReturnedEof == phase = "open" /\ last.op = "read" /\ last.st = LFP_EOF

EofReported == phase = "open" /\ Eof(file, h)

Usable == phase \in {"open", "bare"}

C22_ReadNothing ==
    [][ ( Usable /\ last'.op = "read" /\ last'.arg = 0 )
        => /\ last'.st = LFP_OK
           /\ last'.nread = 0
           /\ h' = h
           /\ Tell(file, h') = Tell(file, h)
           /\ Eof(file, h') = Eof(file, h) ]_vars

C24_FailedOpenKeepsLeaf ==
    /\ [][ ( phase = "leaf" /\ file.proto = "tif" /\ last'.op = "open"
             /\ last'.threw )
           => /\ phase' = "null"
              /\ own'.outer = "none" /\ ~ own'.fp
              /\ own'.inner = "alive"
              /\ own'.closes = 0 /\ own'.fcloses = 0 ]_vars
    /\ [][ ( phase = "null" /\ own'.call = "close_leaf" )
           => /\ own.inner = "alive" /\ own.fcloses = 0
              /\ own'.inner = "deleted"
              /\ own'.closes = 1 /\ own'.fcloses = 1 ]_vars

(* the caller has read from the leaf after the failed open and closed it *)
C24_Witness ==
    /\ phase = "null" /\ file = TifNoHeader
    /\ last.op = "read" /\ last.st = LFP_EOF /\ own.reads = 1
    /\ own.call = "close_leaf" /\ own.inner = "deleted"
    /\ own.fcloses = 1

(* C25: closing the outermost handle of a stack returns ok and releases    *)
(* the leaf the decoder owns; the leaf's close() is invoked twice on the   *)
(* way, and the leaf's host resource is closed exactly once.  The same     *)
(* holds for a leaf that is its own outermost handle, and no host resource *)
(* is ever closed twice.                                                   *)
C25_CloseClosesOnce ==
    /\ [][ ( phase = "open" /\ own'.call = "close" )
           => /\ own'.st = LFP_OK
              /\ own'.outer = "deleted" /\ ~ own'.fp
              /\ own'.inner = "deleted"
              /\ own'.closes = 2
              /\ own'.fcloses = 1 ]_vars
    /\ [][ ( phase = "bare" /\ own'.call = "close_leaf" )
           => /\ own'.st = LFP_OK
              /\ own'.inner = "deleted"
              /\ own'.fcloses = 1 ]_vars
    /\ [](own.fcloses <= 1)

(* a tape image over a cfile has been read from and closed *)
C25_Witness ==
    /\ phase = "closed" /\ file.proto = "tif" /\ file.kind = "cfile"
    /\ own.call = "close" /\ own.outer = "deleted"
    /\ own.inner = "deleted" /\ own.closes = 2 /\ own.fcloses = 1
    /\ last.op = "read" /\ Len(last.out) > 0

(* C26: after peel has handed out the leaf, closing the decoder does       *)
(* nothing to the leaf: it is neither closed nor deleted, it stands where  *)
(* the decoder left it (peel itself does not move it), and a read by the   *)
(* caller delivers the bytes of the leaf from that position on.            *)
C26_PeeledLeafSurvivesClose ==
    /\ [][ ( own'.call = "peel" /\ own'.st = LFP_OK )
           => /\ h' = h
              /\ own'.inner = "alive" /\ own'.closes = 0
              /\ own'.fcloses = 0 ]_vars
    /\ [][ ( phase = "peeled" /\ own'.call = "close" )
           => /\ own'.st = LFP_OK /\ own'.outer = "deleted"
              /\ h' = h
              /\ own'.inner = own.inner
              /\ own'.closes = own.closes
              /\ own'.fcloses = own.fcloses ]_vars
    /\ [][ ( phase = "closed" /\ own.inner = "alive" /\ last' # last )
           => /\ last'.op = "read" /\ ~ last'.threw
              /\ last'.nread = Len(last'.out)
              /\ last'.nread =
                   Min(last'.arg,
                       (IF file.kind = "blockedpipe"
                        THEN file.blocked_from ELSE Len(file.data)) - h.ipos)
              /\ last'.out =
                   SubSeq(file.data, h.ipos + 1, h.ipos + last'.nread)
              /\ h'.ipos = h.ipos + last'.nread ]_vars

(* the decoder was peeled off and closed after it had read payload, and    *)
(* the caller has then read bytes from the leaf                            *)
C26_Witness ==
    /\ phase = "closed" /\ file.proto = "tif"
    /\ own.outer = "deleted" /\ own.inner = "alive" /\ own.closes = 0
    /\ own.call = "" /\ own.reads = 1
    /\ last.op = "read" /\ Len(last.out) > 0
    /\ h.zero + TifHeaderSize < h.ipos - Len(last.out)

(* C27: peel or peek on a decoder whose leaf has been peeled returns       *)
(* LFP_IOERROR and hands out no stream.                                    *)
C27_PeelAgain ==
    [][ ( phase = "peeled" /\ own'.call \in {"peel", "peek"} )
        => ( own'.st = LFP_IOERROR /\ ~ own'.got ) ]_vars

(* the leaves whose ptell is known: the cfile and the memory file *)
HasPtell == file.kind \in {"cfile", "memfile"}

(* the bytes of the leaf source from the absolute position p on *)
LeafBytes(p, n) == SubSeq(file.data, p + 1, p + n)

C29_MemfileShortRead ==
    ( file.kind = "memfile" /\ phase = "bare" /\ last.op = "read" )
    => /\ (last.st = LFP_OK) <=> (last.nread = last.arg)
       /\ last.nread < last.arg
          => /\ last.st = LFP_EOF
             /\ last.nread = Len(file.data) - last.tell0

(* payload length of the descriptor under the read head: the record's      *)
(* length less the header                                                  *)
PayloadLength(f, hh) ==
    IF f.proto = "tif"
    THEN hh.index[hh.cur].next - (HeaderPos(hh, hh.cur) + TifHeaderSize)
    ELSE hh.index[hh.cur].length - Rp66HeaderSize

(* C30: in every state of an open decoder the read head's remaining is at  *)
(* least 0 and at most the payload length of the descriptor it points at,  *)
(* whatever the headers of the file carry.                                 *)
C30_RemainingInRecord ==
    ( phase = "open" )
    => ( 0 <= h.rem /\ h.rem <= PayloadLength(file, h) )

(* the decoder exists: it is open, or a call on it has not come back *)
Decoding == phase \in {"open", "hung"}

(* C31: the index is strictly increasing by physical offset: every record  *)
(* starts where the one before it ends and ends after it starts (tape      *)
(* image: the next values strictly increase from the base address on;      *)
(* rp66: offset + length strictly increases).                              *)
C31_IndexIncreasing ==
    Decoding
    => IF file.proto = "tif"
       THEN \A i \in 1..Len(h.index) :
              HeaderPos(h, i) < h.index[i].next
       ELSE \A i \in 2..Len(h.index) :
              /\ h.index[i].offset = Rp66End(h.index[i - 1])
              /\ Rp66End(h.index[i - 1]) < Rp66End(h.index[i])

(* C32: an rp66 header whose length field is less than the size of the     *)
(* header is rejected: no record of the index has a length below 4.        *)
C32_ShortHeaderRejected ==
    ( Decoding /\ file.proto = "rp66" )
    => \A i \in 2..Len(h.index) : Rp66HeaderSize <= h.index[i].length

(* C33: every read and every seek comes back, and the headers one call     *)
(* adds to the index are at most as many as the inner stream has bytes.    *)
C33_CallsTerminate ==
    [][ phase = "open"
        => /\ phase' # "hung"
           /\ Len(h'.index) - Len(h.index) <= Len(file.data) ]_vars

(* read_head::tell of the decoder that is open *)
HeadTell == IF file.proto = "tif" THEN TifHeadTell(h) ELSE Rp66HeadTell(h)

(* the last call was a read or a seek that returned without an error *)
ReturnedWell ==
    /\ phase = "open"
    /\ last.op \in {"read", "seek"}
    /\ last.st \in {LFP_OK, LFP_OKINCOMPLETE, LFP_EOF}

HeadTellOf(hh) ==
    IF file.proto = "tif" THEN TifHeadTell(hh) ELSE Rp66HeadTell(hh)

(* the leaf is where the read head is *)
Aligned(hh) == InnerTell(file, hh) = HeadTellOf(hh)

(* the call that is returning is a seek of a tape image to an offset past  *)
(* everything the index holds when it returns: past the file marker        *)
SeekPastIndex ==
    /\ file.proto = "tif"
    /\ last'.op = "seek"
    /\ ~ TifContains(h', last'.arg)

OnDisk(i) ==
    TifParseHeader(SubSeq(file.data, file.czero + HeaderPos(h, i) + 1,
                          file.czero + HeaderPos(h, i) + TifHeaderSize))

(* C35: every tape-image descriptor from the third on has prev equal to    *)
(* the next of the descriptor two places before it.                        *)
C35_PrevIsNextTwoBack ==
    ( Decoding /\ file.proto = "tif" )
    => \A i \in 3..Len(h.index) : h.index[i].prev = h.index[i - 2].next

(* a header whose prev on disk disagrees has been indexed, patched *)
C35_Witness ==
    /\ phase = "open"
    /\ file.proto = "tif"
    /\ \E i \in 3..Len(h.index) :
         /\ OnDisk(i).prev # h.index[i - 2].next
         /\ h.index[i].prev = h.index[i - 2].next

(* C36: in a tape-image index only the last descriptor can be a file       *)
(* marker: no header behind a file marker is ever indexed.                 *)
C36_FileMarkerIsLast ==
    ( Decoding /\ file.proto = "tif" )
    => \A i \in 1..(Len(h.index) - 1) : h.index[i].type # TifFile

(* the index ends with a file marker that has bytes behind it in the leaf, *)
(* and a seek past it or a read at it has returned                         *)
C36_Witness ==
    /\ phase = "open"
    /\ file.proto = "tif"
    /\ h.index[Len(h.index)].type = TifFile
    /\ h.index[Len(h.index)].next + TifHeaderSize + file.czero
         <= Len(file.data)
    /\ h.cur = Len(h.index)
    /\ \/ last.op = "seek" /\ last.st = LFP_OK
                           /\ ~ TifContains(h, last.arg)
       \/ last.op = "read" /\ last.st = LFP_EOF /\ last.eof0

(* a seek of a tape image with one record indexed has put the read head on *)
(* that record with current.move(index.last()) and has gone no further:    *)
(* the target is behind the record, and the record is a file marker or the *)
(* header behind it could not be indexed                                   *)
SeekStoppedAtFirst ==
    /\ phase = "open"
    /\ file.proto = "tif"
    /\ last.op = "seek"
    /\ last.st # LFP_INVALID_ARGS
    /\ Len(h.index) = 1
    /\ TifPhysical(h.zero, last.arg, 0) > h.index[1].next

(* C37: moving the read head to the first indexed record sets remaining to *)
(* the whole payload of that record, counted from the base address: no     *)
(* descriptor in front of the first index entry is read.                   *)
C37_FirstRecordWhole ==
    SeekStoppedAtFirst
    => h.rem = h.index[1].next - (h.zero + TifHeaderSize)

(* the payload length of index entry i, from the headers alone *)
PayloadOf(hh, i) ==
    IF file.proto = "tif"
    THEN hh.index[i].next - (HeaderPos(hh, i) + TifHeaderSize)
    ELSE IF i = 1 THEN 0 ELSE hh.index[i].length - Rp66HeaderSize

(* the logical offset at which the payload of index entry i ends: the sum  *)
(* of the payload lengths of the entries up to i                           *)
RECURSIVE PayloadEnd(_, _)
PayloadEnd(hh, i) ==
    IF i = 0 THEN 0 ELSE PayloadEnd(hh, i - 1) + PayloadOf(hh, i)

(* the payload of index entry i holds the logical offset L *)
Covers(hh, i, L) ==
    PayloadEnd(hh, i - 1) <= L /\ L < PayloadEnd(hh, i)

(* record_index::contains and record_index::find of the decoder; a hint is *)
(* any position of the index                                               *)
Contains(hh, L) ==
    IF file.proto = "tif" THEN TifContains(hh, L) ELSE Rp66Contains(hh, L)

Find(hh, L, hint) ==
    IF file.proto = "tif" THEN TifFind(hh, L, hint) ELSE Rp66Find(hh, L, hint)

InHint(hh, L, hint) ==
    IF file.proto = "tif" THEN TifInHint(hh, L, hint)
                          ELSE Rp66InHint(hh, L, hint)

Hints(hh) == 1..Len(hh.index)

(* d is what find(L, hint) returned: it is a descriptor, its payload holds *)
(* L, find(L, d) is d again, and find returns d for every other hint       *)
FoundRight(hh, L, d) ==
    /\ d # 0
    /\ Covers(hh, d, L)
    /\ Find(hh, L, d) = d
    /\ \A other \in Hints(hh) : Find(hh, L, other) = d

(* C38: for every offset L that the index contains and every hint, find    *)
(* returns without logic-error the descriptor whose payload holds L, the   *)
(* same for every hint, and find(L, find(L, hint)) = find(L, hint).        *)
C38_FindRight ==
    Decoding
    => \A L \in 0..MaxSeek : \A hint \in Hints(h) :
         Contains(h, L) => FoundRight(h, L, Find(h, L, hint))

(* the hints that stand on a record: every position of a tape-image index, *)
(* every position of an rp66 index but the ghost                           *)
RecordHints(hh) ==
    IF file.proto = "tif" THEN 1..Len(hh.index) ELSE 2..Len(hh.index)

(* C39: the hint fast path of find fires exactly when L lies in the        *)
(* payload range of the hint's record, for a hint at any index position.   *)
C39_HintFastPath ==
    Decoding
    => \A L \in 0..MaxSeek : \A hint \in RecordHints(h) :
         Contains(h, L) => ( InHint(h, L, hint) <=> Covers(h, hint, L) )

(* C40: contains(L) is true exactly when L is smaller than the logical end *)
(* of the last indexed record, i.e. L lies in a record already parsed.     *)
C40_ContainsUpToEnd ==
    Decoding
    => \A L \in 0..MaxSeek :
         Contains(h, L) <=> L < PayloadEnd(h, Len(h.index))

====
